---- MODULE Spec2Model ----
(***************************************************************************)
(* A model of the currency-converter backend: the query extractors, the    *)
(* rate client (CurrencyService), the two batch engines, the LLM           *)
(* orchestrator (LLMService), the in-memory conversation store             *)
(* (ConversationService) and the HTTP handlers of app/main.py.             *)
(*                                                                         *)
(* Conventions.                                                            *)
(*  - A Python str that the code scans is a sequence of one-character      *)
(*    strings; a str that the code only builds is a sequence of pieces     *)
(*    (a literal, an embedded str, a formatted number).                    *)
(*  - A float is an integer number of thousandths; an exchange rate is an  *)
(*    integer number of millionths.                                        *)
(*  - A call either returns a value, [ret |-> v], or raises,               *)
(*    [exc |-> type, msg |-> text].                                        *)
(*  - The rate service and the LLM service are the environment: every      *)
(*    action draws their answers from a set of possible answers.           *)
(***************************************************************************)
EXTENDS Integers, Sequences, FiniteSets, TLC

VARIABLES
    conversations,  \* ConversationService.conversations of app.main's instance
    op,             \* the operation that ran last, with its arguments
    result,         \* what that operation returned or raised
    outbound,       \* the outbound network calls that operation made, in order
    trace           \* the steps that operation took, in order

vars == <<conversations, op, result, outbound, trace>>

(***************************************************************************)
(* Characters and Python's str helpers                                     *)
(***************************************************************************)
LowerCase ==
    <<"a","b","c","d","e","f","g","h","i","j","k","l","m",
      "n","o","p","q","r","s","t","u","v","w","x","y","z">>

UpperCase ==
    <<"A","B","C","D","E","F","G","H","I","J","K","L","M",
      "N","O","P","Q","R","S","T","U","V","W","X","Y","Z">>

Digits == <<"0","1","2","3","4","5","6","7","8","9">>

Range(f) == {f[i] : i \in DOMAIN f}

\* Body applied to the value v: a local name for a value used several times
Let(v, Body(_)) == CHOOSE r \in {Body(x) : x \in {v}} : TRUE

\* regex \d
IsDigit(c) == c \in Range(Digits)

\* regex [a-zA-Z]
IsAlpha(c) == c \in Range(LowerCase) \cup Range(UpperCase)

\* regex \w
IsWordChar(c) == IsAlpha(c) \/ IsDigit(c) \/ c = "_"

\* regex \s, and the characters str.strip() removes
IsSpace(c) == c \in {" ", "\t", "\n"}

\* str.upper() on one character
UpperChar(c) ==
    IF c \in Range(LowerCase)
    THEN UpperCase[CHOOSE i \in DOMAIN LowerCase : LowerCase[i] = c]
    ELSE c

\* str.lower() on one character (what re.IGNORECASE compares)
LowerChar(c) ==
    IF c \in Range(UpperCase)
    THEN LowerCase[CHOOSE i \in DOMAIN UpperCase : UpperCase[i] = c]
    ELSE c

\* str.upper()
Upper(s) == [i \in DOMAIN s |-> UpperChar(s[i])]

\* the value of a digit character
DigitValue(c) == (CHOOSE i \in DOMAIN Digits : Digits[i] = c) - 1

\* str.strip()
Strip(s) ==
    IF \A i \in DOMAIN s : IsSpace(s[i])
    THEN <<>>
    ELSE LET first == CHOOSE i \in DOMAIN s :
                          /\ ~IsSpace(s[i])
                          /\ \A k \in 1..(i - 1) : IsSpace(s[k])
             last  == CHOOSE i \in DOMAIN s :
                          /\ ~IsSpace(s[i])
                          /\ \A k \in (i + 1)..Len(s) : IsSpace(s[k])
         IN  SubSeq(s, first, last)

\* does the literal lit (lower case) stand at position i of s, ignoring case
LitAt(s, i, lit) ==
    /\ i + Len(lit) - 1 <= Len(s)
    /\ \A k \in 1..Len(lit) : LowerChar(s[i + k - 1]) = lit[k]

\* the same, case-sensitive (str.split's separator)
ExactAt(s, i, lit) ==
    /\ i + Len(lit) - 1 <= Len(s)
    /\ \A k \in 1..Len(lit) : s[i + k - 1] = lit[k]

\* the end (exclusive) of the longest run of digits starting at i: regex \d*
SkipDigits(s, i) ==
    IF i < 1 \/ i > Len(s) THEN i
    ELSE CHOOSE j \in i..(Len(s) + 1) :
            /\ \A k \in i..(j - 1) : IsDigit(s[k])
            /\ (j = Len(s) + 1 \/ ~IsDigit(s[j]))

\* the end (exclusive) of the longest run of whitespace starting at i: regex \s*
SkipSpaces(s, i) ==
    IF i < 1 \/ i > Len(s) THEN i
    ELSE CHOOSE j \in i..(Len(s) + 1) :
            /\ \A k \in i..(j - 1) : IsSpace(s[k])
            /\ (j = Len(s) + 1 \/ ~IsSpace(s[j]))

\* regex (\d+(?:\.\d+)?) at position i: the end (exclusive) of the match, 0
\* when there is none.  Giving digits back never lets the rest of either
\* pattern match (a digit is neither "." nor whitespace nor, after \s, a
\* letter in the first pattern; in the second \s+ must follow), so the
\* greedy match is the only one to try.
NumberEnd(s, i) ==
    Let(SkipDigits(s, i), LAMBDA j :
        IF j = i THEN 0
        ELSE IF j <= Len(s) /\ s[j] = "."
             THEN Let(SkipDigits(s, j + 1), LAMBDA f :
                      IF f > j + 1 THEN f ELSE j)
             ELSE j)

RECURSIVE DigitsToInt(_)
\* int() of a run of digits
DigitsToInt(ds) ==
    IF ds = <<>> THEN 0
    ELSE 10 * DigitsToInt(SubSeq(ds, 1, Len(ds) - 1)) + DigitValue(ds[Len(ds)])

\* float() of a matched number, in thousandths (digits after the third
\* decimal do not occur in the texts of this model)
ParseFloat(num) ==
    Let(SkipDigits(num, 1), LAMBDA n :
        DigitsToInt(SubSeq(num, 1, n - 1)) * 1000
        + DigitsToInt(SubSeq(SubSeq(num, n + 1, Len(num)) \o <<"0", "0", "0">>, 1, 3)))

(***************************************************************************)
(* Query extractors                                                        *)
(***************************************************************************)
\* three characters of class [a-zA-Z] at i..i+2
ThreeAlphaAt(s, i) ==
    /\ i + 2 <= Len(s)
    /\ \A k \in i..(i + 2) : IsAlpha(s[k])

\* three characters of class \w at i..i+2
ThreeWordAt(s, i) ==
    /\ i + 2 <= Len(s)
    /\ \A k \in i..(i + 2) : IsWordChar(s[k])

\* LLMService.conversion_pattern matched at position i of query:
\*   (\d+(?:\.\d+)?)\s*([a-zA-Z]{3})\s*(?:to|in)\s*([a-zA-Z]{3})
\* [end |-> 0] when it does not match there.
ConversionPatternAt(query, i) ==
    Let(NumberEnd(query, i), LAMBDA n :
    Let(SkipSpaces(query, n), LAMBDA c1 :
    Let(SkipSpaces(query, c1 + 3), LAMBDA k :
    Let(SkipSpaces(query, k + 2), LAMBDA c2 :
        IF /\ n # 0
           /\ ThreeAlphaAt(query, c1)
           /\ (LitAt(query, k, <<"t", "o">>) \/ LitAt(query, k, <<"i", "n">>))
           /\ ThreeAlphaAt(query, c2)
        THEN [end    |-> c2 + 3,
              amount |-> SubSeq(query, i, n - 1),
              from   |-> SubSeq(query, c1, c1 + 2),
              to     |-> SubSeq(query, c2, c2 + 2)]
        ELSE [end |-> 0]))))

\* re.findall as it would be if it were re.match: the match at position i
\* alone, none when the pattern does not stand there
FindAtStart(query, i) ==
    Let(ConversionPatternAt(query, i), LAMBDA m :
        IF m.end # 0 THEN <<m>> ELSE <<>>)

RECURSIVE FindAllFrom(_, _)
\* re.findall(conversion_pattern, query, re.IGNORECASE): the non-overlapping
\* matches, leftmost first, scanning on from the end of each match
FindAllFrom(query, i) ==
    IF i > Len(query) THEN <<>>
    ELSE Let(ConversionPatternAt(query, i), LAMBDA m :
             IF m.end # 0
             THEN <<m>> \o FindAllFrom(query, m.end)
             ELSE FindAllFrom(query, i + 1))

\* _extract_conversions as it would be with a pattern that asks for a
\* number only
_extract_conversions_any_number(query) ==
    IF \E i \in DOMAIN query : IsDigit(query[i])
    THEN <<[amount |-> 0, from_currency |-> <<"U", "S", "D">>,
            to_currency |-> <<"E", "U", "R">>]>>
    ELSE <<>>

\* LLMService._extract_conversions
_extract_conversions(query) ==
    Let(FindAllFrom(query, 1), LAMBDA matches :
        [i \in DOMAIN matches |->
            [amount        |-> ParseFloat(matches[i].amount),
             from_currency |-> Upper(matches[i].from),
             to_currency   |-> Upper(matches[i].to)]])

\* the separator of parse_conversion_query's split
AndSeparator == <<" ", "a", "n", "d", " ">>

RECURSIVE SplitFrom(_, _, _)
\* query.split(" and "): the pieces between the non-overlapping occurrences
\* of the separator, found left to right; start is where the current piece
\* began and i the position being examined
SplitFrom(query, start, i) ==
    IF i > Len(query) THEN <<SubSeq(query, start, Len(query))>>
    ELSE IF ExactAt(query, i, AndSeparator)
         THEN <<SubSeq(query, start, i - 1)>>
              \o SplitFrom(query, i + Len(AndSeparator), i + Len(AndSeparator))
         ELSE SplitFrom(query, start, i + 1)

\* the pattern of parse_conversion_query, matched at the start of request
\* (re.match, re.IGNORECASE):
\*   (?:convert\s+)?(\d+(?:\.\d+)?)\s+(\w{3})\s+to\s+(\w{3})
\* The optional prefix is "convert" followed by at least one whitespace; a
\* text that starts with it cannot match without it (a number must start
\* the match), so the prefix is taken whenever it is there.
SinglePatternMatch(request) ==
    Let(IF /\ LitAt(request, 1, <<"c", "o", "n", "v", "e", "r", "t">>)
           /\ SkipSpaces(request, 8) > 8
        THEN SkipSpaces(request, 8)
        ELSE 1, LAMBDA p :
    Let(NumberEnd(request, p), LAMBDA n :
    Let(SkipSpaces(request, n), LAMBDA c1 :
    Let(SkipSpaces(request, c1 + 3), LAMBDA k :
    Let(SkipSpaces(request, k + 2), LAMBDA c2 :
        IF /\ n # 0
           /\ c1 > n
           /\ ThreeWordAt(request, c1)
           /\ k > c1 + 3
           /\ LitAt(request, k, <<"t", "o">>)
           /\ c2 > k + 2
           /\ ThreeWordAt(request, c2)
        THEN [matched |-> TRUE,
              amount  |-> SubSeq(request, p, n - 1),
              from    |-> SubSeq(request, c1, c1 + 2),
              to      |-> SubSeq(request, c2, c2 + 2)]
        ELSE [matched |-> FALSE])))))

(***************************************************************************)
(* Values: built text, returns and exceptions                              *)
(***************************************************************************)
\* a literal part of an f-string
Lit(s) == [lit |-> s]

\* an int embedded in an f-string
Integer(i) == [int |-> i]

\* a str value embedded in an f-string (a sequence of characters)
Str(cs) == [str |-> cs]

\* a float embedded with default formatting, in thousandths ("{x}")
Float(x) == [float |-> x]

\* a float embedded with a fixed number of decimals ("{x:.2f}", "{x:.4f}"),
\* x in the given unit (thousandths or millionths)
Fixed(x, unit, decimals) == [fixed |-> x, unit |-> unit, decimals |-> decimals]

\* an exchange rate embedded with default formatting, in millionths
Rate(x) == [rate |-> x]

\* a call that returned v
Returns(v) == [ret |-> v]

\* a call that raised an exception of the given type whose str() is msg
Raises(type, msg) == [exc |-> type, msg |-> msg]

IsRaise(r) == "exc" \in DOMAIN r

\* isinstance(e, ValueError) for the exception types of this model
IsValueError(r) == IsRaise(r) /\ r.exc \in {"ValueError", "JSONDecodeError", "ValidationError"}

\* Python's None
None == [none |-> TRUE]

\* a str as a value that may also be None: its pieces, wrapped
Text(pieces) == [text |-> pieces]

\* isinstance(v, str) for a value that is a Text or None
IsText(v) == "text" \in DOMAIN v

\* the requests of parse_conversion_query: the pieces of the split, stripped
conversion_requests(query) ==
    Let(SplitFrom(query, 1, 1), LAMBDA pieces :
        [i \in DOMAIN pieces |-> Strip(pieces[i])])

\* CurrencyService.parse_conversion_query
parse_conversion_query(query) ==
    Let(conversion_requests(query), LAMBDA requests :
    Let([i \in DOMAIN requests |-> SinglePatternMatch(Strip(requests[i]))], LAMBDA matches :
    Let({i \in DOMAIN requests : ~matches[i].matched}, LAMBDA bad :
        IF bad # {}
        THEN \* the loop raises at the first request that does not match
             Raises("ValueError",
                    <<Lit("Invalid conversion format: '"),
                      Str(requests[CHOOSE j \in bad : \A k \in bad : j <= k]),
                      Lit("'. Use format: '100 USD to EUR' or '100 USD to EUR and 50 GBP to JPY'")>>)
        ELSE IF requests = <<>>
        THEN Raises("ValueError", <<Lit("No valid currency conversions found in query")>>)
        ELSE Returns([i \in DOMAIN requests |->
                        <<ParseFloat(matches[i].amount),
                          Upper(matches[i].from), Upper(matches[i].to)>>]))))

(***************************************************************************)
(* Rate client: CurrencyService                                            *)
(***************************************************************************)
\* CurrencyService.supported_currencies
supported_currencies ==
    {
      <<"U","S","D">>, <<"E","U","R">>, <<"G","B","P">>,
      <<"J","P","Y">>, <<"A","U","D">>, <<"C","A","D">>,
      <<"C","H","F">>, <<"C","N","Y">>, <<"I","N","R">>,
      <<"N","Z","D">>, <<"S","G","D">>, <<"H","K","D">>,
      <<"S","E","K">>, <<"K","R","W">>, <<"N","O","K">>,
      <<"M","X","N">>, <<"B","R","L">>, <<"P","L","N">> }

\* the names bound in the module namespace of currency_service.py (its
\* imports and definitions); a name looked up at run time that is neither
\* here nor a builtin raises NameError
currency_service_globals ==
    {"httpx", "re", "Dict", "List", "Tuple", "logging", "datetime",
     "settings", "logger", "CurrencyService"}

Abs(x) == IF x < 0 THEN -x ELSE x

RECURSIVE Pow10(_)
Pow10(n) == IF n = 0 THEN 1 ELSE 10 * Pow10(n - 1)

RECURSIVE DecimalDigits(_, _, _)
\* the first n decimal digits of r / d (0 <= r < d), as an integer
DecimalDigits(r, d, n) ==
    IF n = 0 THEN 0
    ELSE LET q == (r * 10) \div d
             digit == q * Pow10(n - 1)
         IN  digit + DecimalDigits((r * 10) % d, d, n - 1)

RECURSIVE Remainder(_, _, _)
\* what is left of r / d after n decimal digits
Remainder(r, d, n) ==
    IF n = 0 THEN r ELSE Remainder((r * 10) % d, d, n - 1)

\* round(x / y, 6) for x, y in the same unit, y # 0, in millionths; done by
\* long division so that no intermediate value leaves 32 bits
RoundedQuotient6(x, y) ==
    Let(Abs(x), LAMBDA a :
    Let(Abs(y), LAMBDA b :
    Let((a \div b) * 1000000 + DecimalDigits(a % b, b, 6), LAMBDA whole :
    Let(Remainder(a % b, b, 6), LAMBDA rest :
    Let(IF 2 * rest > b \/ (2 * rest = b /\ whole % 2 = 1)
        THEN whole + 1
        ELSE whole, LAMBDA mag :
        IF (x < 0) # (y < 0) THEN -mag ELSE mag)))))

\* round(x, 2) for x in thousandths, in thousandths (ties to even)
Round2(x) ==
    Let(Abs(x) \div 10, LAMBDA h :
    Let(Abs(x) % 10, LAMBDA r :
    Let(10 * (IF r > 5 \/ (r = 5 /\ h % 2 = 1) THEN h + 1 ELSE h), LAMBDA mag :
        IF x < 0 THEN -mag ELSE mag)))

\* the GET request convert_currency sends
LatestRequest(amount, from_currency, to_currency) ==
    [service |-> "rate", path |-> "/latest",
     amount |-> amount, from |-> from_currency, to |-> to_currency]

\* the exception convert_currency raises for any failure that is not a
\* ValueError
GenericConversionError(from_currency, to_currency) ==
    Raises("ValueError",
           <<Lit("Error converting "), Str(from_currency), Lit(" to "), Str(to_currency)>>)

\* convert_currency as it would be without the allow-list checks: the
\* request goes out whatever the codes are
convert_currency_unchecked(amount, from_currency, to_currency, answer) ==
    [sent |-> <<LatestRequest(amount, from_currency, to_currency)>>,
     res  |-> GenericConversionError(from_currency, to_currency)]

\* CurrencyService.convert_currency, given the rate service's answer to the
\* request (used only when the request is sent).  [res, sent]: the return or
\* the exception, and the requests sent.  An answer is
\*   [kind |-> "transport", detail]   no response (connection error, timeout)
\*   [kind |-> "status", status, detail]  a non-2xx response and its text
\*   [kind |-> "notjson", detail]     a 2xx response whose body is not JSON
\*   [kind |-> "json", rate, date]    a 2xx JSON body; rate is <<v>> when
\*       body["rates"][to_currency] is the number v (thousandths) and <<>>
\*       when there is no such entry; date is <<d>> or <<>> likewise
convert_currency(amount, from_currency, to_currency, answer) ==
    IF from_currency \notin supported_currencies
    THEN [res  |-> Raises("ValueError",
                          <<Lit("Unsupported source currency: "), Str(from_currency)>>),
          sent |-> <<>>]
    ELSE IF to_currency \notin supported_currencies
    THEN [res  |-> Raises("ValueError",
                          <<Lit("Unsupported target currency: "), Str(to_currency)>>),
          sent |-> <<>>]
    ELSE
    [sent |-> <<LatestRequest(amount, from_currency, to_currency)>>,
     res  |->
        CASE answer.kind = "transport" ->
                \* client.get raises httpx.ConnectError, ReadTimeout, ...
                GenericConversionError(from_currency, to_currency)
          [] answer.kind = "status" ->
                \* raise_for_status raises httpx.HTTPStatusError
                GenericConversionError(from_currency, to_currency)
          [] answer.kind = "notjson" ->
                \* response.json() raises json.JSONDecodeError, a ValueError:
                \* the first handler re-raises it as it is
                Raises("JSONDecodeError", <<Lit(answer.detail)>>)
          [] answer.kind = "json" ->
                IF answer.rate = <<>>
                THEN \* data["rates"][to_currency] raises KeyError
                     GenericConversionError(from_currency, to_currency)
                ELSE IF amount = 0
                THEN \* ZeroDivisionError
                     GenericConversionError(from_currency, to_currency)
                ELSE Returns(
                        [amount           |-> amount,
                         from_currency    |-> from_currency,
                         to_currency      |-> to_currency,
                         converted_amount |-> Round2(answer.rate[1]),
                         exchange_rate    |-> RoundedQuotient6(answer.rate[1], amount),
                         \* data.get("date", <today>)
                         date             |-> IF answer.date = <<>>
                                              THEN "today"
                                              ELSE answer.date[1]])]

\* "error" in result
HasError(r) == "error" \in DOMAIN r

\* what batch_convert_currencies appends for one item, given the outcome c
\* of its convert_currency call
batch_item(conversion, c) ==
    IF IsRaise(c.res)
    THEN [error         |-> c.res.msg,
          amount        |-> conversion[1],
          from_currency |-> conversion[2],
          to_currency   |-> conversion[3]]
    ELSE c.res.ret

RECURSIVE batch_loop(_, _, _)
\* the loop of batch_convert_currencies from item i on
batch_loop(conversions, answers, i) ==
    IF i > Len(conversions) THEN [results |-> <<>>, sent |-> <<>>]
    ELSE Let(convert_currency(conversions[i][1], conversions[i][2],
                              conversions[i][3], answers[i]), LAMBDA c :
         Let(batch_loop(conversions, answers, i + 1), LAMBDA rest :
             [results |-> <<batch_item(conversions[i], c)>> \o rest.results,
              sent    |-> c.sent \o rest.sent]))

\* CurrencyService.batch_convert_currencies: conversions is a sequence of
\* (amount, from, to) tuples, answers[i] the rate service's answer to the
\* request of item i
batch_convert_currencies(conversions, answers) ==
    Let(batch_loop(conversions, answers, 1), LAMBDA r :
        [res |-> Returns(r.results), sent |-> r.sent])

RECURSIVE Flatten(_)
\* the concatenation of a sequence of sequences
Flatten(ss) == IF ss = <<>> THEN <<>> ELSE Head(ss) \o Flatten(Tail(ss))

\* asyncio.gather(*tasks, return_exceptions=True) over the convert_currency
\* coroutines: the outcome of task i in slot i, whatever the order in which
\* the tasks finish; an exception is returned in its slot
gather_conversions(conversions, answers) ==
    [i \in DOMAIN conversions |->
        convert_currency(conversions[i].amount, conversions[i].from_currency,
                         conversions[i].to_currency, answers[i])]

\* CurrencyService.convert_multiple_currencies: conversions is a sequence of
\* dicts.  Calling convert_currency only creates a coroutine; nothing runs
\* until gather awaits it, and the expression asyncio.gather looks the name
\* asyncio up before anything is awaited.
convert_multiple_currencies(conversions, answers) ==
    IF "asyncio" \notin currency_service_globals
    THEN \* NameError, caught by the handler of the method
         [res  |-> Raises("Exception",
                          <<Lit("Multiple currency conversion failed: "),
                            Lit("name 'asyncio' is not defined")>>),
          sent |-> <<>>]
    ELSE Let(gather_conversions(conversions, answers), LAMBDA done :
             [res  |-> Returns(
                        [i \in DOMAIN done |->
                            IF IsRaise(done[i].res)
                            THEN [error      |-> done[i].res.msg,
                                  conversion |-> conversions[i]]
                            ELSE done[i].res.ret]),
              sent |-> Flatten([i \in DOMAIN done |-> done[i].sent])])

\* CurrencyService.get_supported_currencies, given the rate service's answer.
\* A "json" answer carries currencies: <<m>> when the body is an object m
\* (a set of <<code, name>> pairs), <<>> when it is some other JSON value.
\* The method returns whatever the body is.
get_supported_currencies(answer) ==
    [sent |-> <<[service |-> "rate", path |-> "/currencies"]>>,
     res  |->
        CASE answer.kind = "transport" ->
                Raises("Exception",
                       <<Lit("Failed to fetch supported currencies: "), Lit(answer.detail)>>)
          [] answer.kind = "status" ->
                Raises("Exception",
                       <<Lit("Failed to fetch supported currencies: "),
                         Lit("HTTP status "), Integer(answer.status)>>)
          [] answer.kind = "notjson" ->
                Raises("Exception",
                       <<Lit("Failed to fetch supported currencies: "), Lit(answer.detail)>>)
          [] answer.kind = "json" ->
                Returns(answer.currencies)]

\* datetime.now() in the runs of this model, as <<year, month, day>>
Now == <<2025, 6, 15>>

\* the number of days of month m of year y
DaysInMonth(y, m) ==
    IF m = 2
    THEN IF (y % 4 = 0 /\ y % 100 # 0) \/ y % 400 = 0 THEN 29 ELSE 28
    ELSE IF m \in {4, 6, 9, 11} THEN 30 ELSE 31

\* is c one of the digits lo..hi
DigitIn(s, i, lo, hi) ==
    /\ i <= Len(s)
    /\ IsDigit(s[i])
    /\ DigitValue(s[i]) \in lo..hi

\* the length of strptime's match of %m at position i, 0 when none:
\*   1[0-2]|0[1-9]|[1-9], followed by "-"
MonthLen(s, i) ==
    LET dash(j) == j <= Len(s) /\ s[j] = "-"
    IN  IF DigitIn(s, i, 1, 1) /\ DigitIn(s, i + 1, 0, 2) /\ dash(i + 2) THEN 2
        ELSE IF DigitIn(s, i, 0, 0) /\ DigitIn(s, i + 1, 1, 9) /\ dash(i + 2) THEN 2
        ELSE IF DigitIn(s, i, 1, 9) /\ dash(i + 1) THEN 1
        ELSE 0

\* strptime's match of %d at position i: 3[01]|[12]\d|0[1-9]|[1-9]| [1-9];
\* [len |-> 0] when none
DayMatch(s, i) ==
    IF DigitIn(s, i, 3, 3) /\ DigitIn(s, i + 1, 0, 1)
    THEN [len |-> 2, day |-> 30 + DigitValue(s[i + 1])]
    ELSE IF DigitIn(s, i, 1, 2) /\ DigitIn(s, i + 1, 0, 9)
    THEN [len |-> 2, day |-> 10 * DigitValue(s[i]) + DigitValue(s[i + 1])]
    ELSE IF DigitIn(s, i, 0, 0) /\ DigitIn(s, i + 1, 1, 9)
    THEN [len |-> 2, day |-> DigitValue(s[i + 1])]
    ELSE IF DigitIn(s, i, 1, 9)
    THEN [len |-> 1, day |-> DigitValue(s[i])]
    ELSE IF i + 1 <= Len(s) /\ s[i] = " " /\ DigitIn(s, i + 1, 1, 9)
    THEN [len |-> 2, day |-> DigitValue(s[i + 1])]
    ELSE [len |-> 0]

\* the ValueError of strptime for a text that does not match the format
NoFormatMatch(date_str) ==
    Raises("ValueError",
           <<Lit("time data "), Str(date_str), Lit(" does not match format '%Y-%m-%d'")>>)

\* datetime.strptime(date_str, "%Y-%m-%d"): the date, or the ValueError
strptime(date_str) ==
    IF ~(/\ \A i \in 1..4 : DigitIn(date_str, i, 0, 9)
         /\ Len(date_str) >= 5
         /\ date_str[5] = "-")
    THEN NoFormatMatch(date_str)
    ELSE
    Let(MonthLen(date_str, 6), LAMBDA ml :
    Let(DayMatch(date_str, 6 + ml + 1), LAMBDA dm :
    Let(DigitsToInt(SubSeq(date_str, 1, 4)), LAMBDA y :
    Let(DigitsToInt(SubSeq(date_str, 6, 5 + ml)), LAMBDA m :
        IF ml = 0 THEN NoFormatMatch(date_str)
        ELSE IF dm.len = 0 THEN NoFormatMatch(date_str)
        ELSE IF 6 + ml + 1 + dm.len # Len(date_str) + 1
        THEN Raises("ValueError",
                    <<Lit("unconverted data remains: "),
                      Str(SubSeq(date_str, 6 + ml + 1 + dm.len, Len(date_str)))>>)
        ELSE IF y = 0
        THEN Raises("ValueError", <<Lit("year 0 is out of range")>>)
        ELSE IF dm.day > DaysInMonth(y, m)
        THEN Raises("ValueError", <<Lit("day is out of range for month")>>)
        ELSE Returns(<<y, m, dm.day>>)))))

\* d1 > d2 for two dates <<year, month, day>>
DateAfter(d1, d2) ==
    \/ d1[1] > d2[1]
    \/ d1[1] = d2[1] /\ d1[2] > d2[2]
    \/ d1[1] = d2[1] /\ d1[2] = d2[2] /\ d1[3] > d2[3]

\* does the text of a ValueError contain "time data"
MentionsTimeData(e) == e.msg[1] = Lit("time data ")

\* the date validation at the head of get_historical_rate: the ValueError
\* that leaves the inner try, or Returns of the parsed date
validate_date(date_str) ==
    Let(strptime(date_str), LAMBDA parsed :
        IF IsRaise(parsed)
        THEN IF MentionsTimeData(parsed)
             THEN Raises("ValueError", <<Lit("Invalid date format. Use YYYY-MM-DD")>>)
             ELSE parsed
        ELSE IF DateAfter(parsed.ret, Now)
        THEN Raises("ValueError", <<Lit("Cannot get exchange rates for future dates")>>)
        ELSE parsed)

\* the exception the last handler of get_historical_rate raises for e
FailedHistorical(msg) ==
    Raises("Exception", <<Lit("Failed to fetch historical rate: ")>> \o msg)

\* get_historical_rate once the date is validated: the request and its answer
historical_request(date_str, from, to, answer) ==
    [sent |-> <<[service |-> "rate", path |-> date_str, from |-> from, to |-> to]>>,
     res  |->
        CASE answer.kind = "transport" ->
                FailedHistorical(<<Lit(answer.detail)>>)
          [] answer.kind = "status" ->
                IF answer.status = 400
                THEN Raises("ValueError",
                            <<Lit("Invalid request: "), Lit(answer.detail)>>)
                ELSE Raises("Exception",
                            <<Lit("Historical rate service error: "),
                              Lit("HTTP status "), Integer(answer.status)>>)
          [] answer.kind = "notjson" ->
                FailedHistorical(<<Lit(answer.detail)>>)
          [] answer.kind = "json" ->
                IF answer.rate = <<>>
                THEN FailedHistorical(
                        <<Lit("Exchange rate not available for "), Str(from),
                          Lit(" to "), Str(to), Lit(" on "), Str(date_str)>>)
                ELSE IF answer.date = <<>>
                THEN FailedHistorical(<<Lit("'date'")>>)
                ELSE Returns([date          |-> answer.date[1],
                              from_currency |-> from,
                              to_currency   |-> to,
                              exchange_rate |-> answer.rate[1]])]

\* CurrencyService.get_historical_rate, given the rate service's answer
get_historical_rate(date_str, from_currency, to_currency, answer) ==
    Let(validate_date(date_str), LAMBDA date :
        IF IsRaise(date)
        THEN [res |-> FailedHistorical(date.msg), sent |-> <<>>]
        ELSE historical_request(date_str, Upper(from_currency),
                                Upper(to_currency), answer))

(***************************************************************************)
(* LLM orchestrator: LLMService                                            *)
(* The emoji of the response templates are written as (money), (chart),    *)
(* (calendar), (exchange) and (x).                                         *)
(***************************************************************************)
\* a section as it would be if every result were shown as an error line
SectionErrorOnly(item, i) ==
    <<Lit("**Conversion "), Integer(i), Lit(":**\n"),
      Lit("(x) Error: "), Lit("\n")>>

\* one section of _format_multiple_conversions_response: item is the i-th result
Section(item, i) ==
    IF HasError(item)
    THEN <<Lit("**Conversion "), Integer(i), Lit(":**\n"),
           Lit("(x) Error: ")>> \o item.error \o <<Lit("\n")>>
    ELSE <<Lit("**Conversion "), Integer(i), Lit(":**\n"),
           Lit("(money) "), Float(item.amount), Lit(" "), Str(item.from_currency),
           Lit(" = "), Lit("**"), Float(item.converted_amount), Lit(" "),
           Str(item.to_currency), Lit("**\n"),
           Lit("(chart) Exchange Rate: 1 "), Str(item.from_currency), Lit(" = "),
           Rate(item.exchange_rate), Lit(" "), Str(item.to_currency), Lit("\n"),
           Lit("(calendar) Rate Date: "), Lit(item.date), Lit("\n")>>

RECURSIVE JoinFrom(_, _, _)
\* sep.join(parts[i:])
JoinFrom(parts, sep, i) ==
    IF i > Len(parts) THEN <<>>
    ELSE IF i = Len(parts) THEN parts[i]
    ELSE parts[i] \o <<sep>> \o JoinFrom(parts, sep, i + 1)

\* LLMService._format_multiple_conversions_response
_format_multiple_conversions_response(results) ==
    IF results = <<>>
    THEN <<Lit("I couldn't process any conversions from your request.")>>
    ELSE JoinFrom([i \in DOMAIN results |-> Section(results[i], i)], Lit("\n"), 1)

\* the position of a letter in the alphabet
LetterIndex(c) == CHOOSE i \in DOMAIN UpperCase : UpperCase[i] = UpperChar(c)

\* a < b for two <<code, name>> items whose codes are three letters
ItemBefore(a, b) ==
    \/ LetterIndex(a[1][1]) < LetterIndex(b[1][1])
    \/ /\ LetterIndex(a[1][1]) = LetterIndex(b[1][1])
       /\ LetterIndex(a[1][2]) < LetterIndex(b[1][2])
    \/ /\ LetterIndex(a[1][1]) = LetterIndex(b[1][1])
       /\ LetterIndex(a[1][2]) = LetterIndex(b[1][2])
       /\ LetterIndex(a[1][3]) < LetterIndex(b[1][3])

\* sorted(currencies.items()) for the codes of this model: by code
SortedItems(currencies) ==
    CHOOSE seq \in [1..Cardinality(currencies) -> currencies] :
        \A i, j \in 1..Cardinality(currencies) : i < j => ItemBefore(seq[i], seq[j])

\* the line _format_supported_currencies builds for one item
currency_line(item) ==
    <<Lit("- **"), Str(item[1]), Lit("** - "), Lit(item[2])>>

\* LLMService._format_supported_currencies; currencies is a set of
\* <<code, name>> pairs
_format_supported_currencies(currencies) ==
    Let(SortedItems(currencies), LAMBDA items :
        <<Lit("Here are the supported currencies:\n\n")>>
        \o JoinFrom([i \in DOMAIN items |-> currency_line(items[i])], Lit("\n"), 1))

\* LLMService._format_historical_rate
_format_historical_rate(rate_data) ==
    <<Lit("**Historical Exchange Rate**\n"),
      Lit("(calendar) Date: "), Lit(rate_data.date), Lit("\n"),
      Lit("(exchange) 1 "), Str(rate_data.from_currency), Lit(" = "),
      Float(rate_data.exchange_rate), Lit(" "), Str(rate_data.to_currency), Lit("\n")>>

\* what the except clause of _handle_tool_calls does with an exception whose
\* str() is msg: function_name is <<>> while the local is still unbound,
\* <<name>> once an iteration has assigned it
tool_call_failed(msg, function_name, sent) ==
    IF function_name = <<>>
    THEN \* the f-string of the handler reads the unbound local
         [act |-> "raise", name |-> function_name, sent |-> sent,
          value |-> Raises("UnboundLocalError",
                           <<Lit("local variable 'function_name' referenced before assignment")>>)]
    ELSE [act |-> "append", name |-> function_name, sent |-> sent,
          value |-> [error |-> msg, function |-> function_name[1]]]

\* the convert_currency branch of _handle_tool_calls
tool_convert_currency(arguments, answer, name) ==
    IF arguments.amount = <<>>
    THEN tool_call_failed(<<Lit("'amount'")>>, name, <<>>)
    ELSE IF arguments.from_currency = <<>>
    THEN tool_call_failed(<<Lit("'from_currency'")>>, name, <<>>)
    ELSE IF arguments.to_currency = <<>>
    THEN tool_call_failed(<<Lit("'to_currency'")>>, name, <<>>)
    ELSE Let(convert_currency(arguments.amount[1], arguments.from_currency[1],
                              arguments.to_currency[1], answer), LAMBDA c :
             IF IsRaise(c.res)
             THEN tool_call_failed(c.res.msg, name, c.sent)
             ELSE [act |-> "append", name |-> name, sent |-> c.sent,
                   value |-> c.res.ret])

\* the get_supported_currencies branch of _handle_tool_calls
tool_get_supported_currencies(answer, name) ==
    Let(get_supported_currencies(answer), LAMBDA g :
        IF IsRaise(g.res)
        THEN tool_call_failed(g.res.msg, name, g.sent)
        ELSE IF g.res.ret = <<>>
        THEN \* currencies.items() on a body that is no object
             tool_call_failed(<<Lit("object has no attribute 'items'")>>, name, g.sent)
        ELSE [act |-> "return", name |-> name, sent |-> g.sent,
              value |-> _format_supported_currencies(g.res.ret[1])])

\* the get_historical_rate branch of _handle_tool_calls
tool_get_historical_rate(arguments, answer, name) ==
    IF arguments.date = <<>>
    THEN tool_call_failed(<<Lit("'date'")>>, name, <<>>)
    ELSE IF arguments.from_currency = <<>>
    THEN tool_call_failed(<<Lit("'from_currency'")>>, name, <<>>)
    ELSE IF arguments.to_currency = <<>>
    THEN tool_call_failed(<<Lit("'to_currency'")>>, name, <<>>)
    ELSE Let(get_historical_rate(arguments.date[1], arguments.from_currency[1],
                                 arguments.to_currency[1], answer), LAMBDA h :
             IF IsRaise(h.res)
             THEN tool_call_failed(h.res.msg, name, h.sent)
             ELSE [act |-> "return", name |-> name, sent |-> h.sent,
                   value |-> _format_historical_rate(h.res.ret)])

\* the if/elif chain of _handle_tool_calls on function_name
tool_dispatch(name, arguments, answer) ==
    CASE name[1] = "convert_currency" ->
            tool_convert_currency(arguments, answer, name)
      [] name[1] = "get_supported_currencies" ->
            tool_get_supported_currencies(answer, name)
      [] name[1] = "get_historical_rate" ->
            tool_get_historical_rate(arguments, answer, name)
      [] OTHER ->
            \* no branch of the chain: nothing is appended
            [act |-> "skip", name |-> name, sent |-> <<>>]

\* one iteration of the loop of _handle_tool_calls.  A tool call is
\*   [function |-> <<>>]                        no "function" key
\*   [function |-> <<[name, arguments]>>]       name: <<>> or <<n>>;
\*       arguments: <<>> (no key) or <<a>>, a = [valid |-> FALSE, detail]
\*       (not JSON) or [valid |-> TRUE, amount, from_currency, to_currency,
\*       date], each <<>> (no key) or <<value>>
\* answer is the rate service's answer to the request the call causes.
tool_call_step(tool_call, answer, function_name) ==
    IF tool_call.function = <<>>
    THEN tool_call_failed(<<Lit("'function'")>>, function_name, <<>>)
    ELSE IF tool_call.function[1].name = <<>>
    THEN tool_call_failed(<<Lit("'name'")>>, function_name, <<>>)
    ELSE IF tool_call.function[1].arguments = <<>>
    THEN tool_call_failed(<<Lit("'arguments'")>>, tool_call.function[1].name, <<>>)
    ELSE IF ~tool_call.function[1].arguments[1].valid
    THEN tool_call_failed(<<Lit(tool_call.function[1].arguments[1].detail)>>,
                          tool_call.function[1].name, <<>>)
    ELSE tool_dispatch(tool_call.function[1].name,
                       tool_call.function[1].arguments[1], answer)

\* _handle_tool_calls after the loop
tool_calls_done(results) ==
    IF results # <<>>
    THEN _format_multiple_conversions_response(results)
    ELSE <<Lit("I couldn't execute the requested function calls.")>>

RECURSIVE tool_call_loop(_, _, _, _, _)
\* the loop of _handle_tool_calls from call i on, with the results gathered
\* so far and the binding of the local function_name
tool_call_loop(tool_calls, answers, i, results, function_name) ==
    IF i > Len(tool_calls)
    THEN [res |-> Returns(Text(tool_calls_done(results))), sent |-> <<>>]
    ELSE Let(tool_call_step(tool_calls[i], answers[i], function_name), LAMBDA step :
         CASE step.act = "raise"  -> [res |-> step.value, sent |-> step.sent]
           [] step.act = "return" -> [res |-> Returns(Text(step.value)), sent |-> step.sent]
           [] OTHER ->
                Let(tool_call_loop(tool_calls, answers, i + 1,
                                   IF step.act = "append"
                                   THEN Append(results, step.value)
                                   ELSE results,
                                   step.name), LAMBDA rest :
                    [res |-> rest.res, sent |-> step.sent \o rest.sent]))

\* LLMService._handle_tool_calls
_handle_tool_calls(tool_calls, answers) ==
    tool_call_loop(tool_calls, answers, 1, <<>>, <<>>)

\* the first fixed fallback of _process_with_llm (httpx.HTTPStatusError)
ConnectivityApology ==
    <<Lit("I'm having trouble connecting to the AI service. Please try again.")>>

\* the second fixed fallback of _process_with_llm (any other Exception)
ProcessingApology ==
    <<Lit("I encountered an error processing your request. Please try again.")>>

\* conversation_history[:10], the ten oldest messages
FirstTen(history) ==
    IF Len(history) <= 10 THEN history ELSE SubSeq(history, 1, 10)

\* conversation_history[-10:]
LastTen(history) ==
    IF Len(history) <= 10 THEN history
    ELSE SubSeq(history, Len(history) - 9, Len(history))

\* the messages of the payload _process_with_llm posts
payload_messages(query, conversation_history) ==
    <<[role |-> "system", content |-> <<Lit("SYSTEM_PROMPT")>>]>>
    \o LastTen(conversation_history)
    \o <<[role |-> "user", content |-> <<Str(query)>>]>>

\* _process_with_llm as it would be without its two except clauses: a failed
\* call raises to process_query
_process_with_llm_unguarded(query, conversation_history, llm_answer, answers) ==
    IF llm_answer.kind = "json" /\ llm_answer.message # <<>>
    THEN [res |-> Returns(Text(<<Lit("I couldn't process your request.")>>)),
          sent |-> <<>>]
    ELSE [res |-> Raises("Exception", <<Lit("the LLM call failed")>>), sent |-> <<>>]

\* the POST _process_with_llm sends
CompletionRequest(query, conversation_history) ==
    [service |-> "llm", path |-> "/chat/completions",
     messages |-> payload_messages(query, conversation_history)]

\* _process_with_llm from the message of a parsed body on
process_message(message, answers) ==
    IF message.tool_calls # <<>> /\ message.tool_calls[1] # <<>>
    THEN Let(_handle_tool_calls(message.tool_calls[1], answers), LAMBDA h :
             [res  |-> IF IsRaise(h.res)
                       THEN Returns(Text(ProcessingApology))
                       ELSE h.res,
              sent |-> h.sent])
    ELSE \* message.get("content", <default>)
         [res  |-> Returns(IF message.content = <<>>
                           THEN Text(<<Lit("I couldn't process your request.")>>)
                           ELSE message.content[1]),
          sent |-> <<>>]

\* LLMService._process_with_llm, given the LLM service's answer to the POST
\* and the rate service's answers to the tool calls.  An LLM answer is
\*   [kind |-> "transport", detail], [kind |-> "status", status, detail],
\*   [kind |-> "notjson", detail], or
\*   [kind |-> "json", message]   message: <<>> when the body has no
\*       choices[0].message, else <<[content, tool_calls]>> with
\*       content: <<>> (no key), <<None>> (null) or <<Text(..)>>, and
\*       tool_calls: <<>> (no key or null) or <<list of tool calls>>
\* conversation_history is a list of messages; None is the empty list here
\* (the code tests its truth only).
_process_with_llm(query, conversation_history, llm_answer, answers) ==
    Let(<<CompletionRequest(query, conversation_history)>>, LAMBDA post :
        CASE llm_answer.kind = "transport" ->
                [res |-> Returns(Text(ProcessingApology)), sent |-> post]
          [] llm_answer.kind = "status" ->
                [res |-> Returns(Text(ConnectivityApology)), sent |-> post]
          [] llm_answer.kind = "notjson" ->
                [res |-> Returns(Text(ProcessingApology)), sent |-> post]
          [] llm_answer.kind = "json" ->
                IF llm_answer.message = <<>>
                THEN [res |-> Returns(Text(ProcessingApology)), sent |-> post]
                ELSE Let(process_message(llm_answer.message[1], answers), LAMBDA m :
                         [res |-> m.res, sent |-> post \o m.sent]))

\* the text process_query returns from its except clause
QueryApology(e) ==
    Returns(Text(<<Lit("I apologize, but I encountered an error processing your request: ")>>
                 \o e.msg))

\* the direct branch of process_query once convert_multiple_currencies is done
direct_conversions(m) ==
    IF IsRaise(m.res)
    THEN [res   |-> QueryApology(m.res),
          sent  |-> m.sent,
          trace |-> <<"_extract_conversions", "convert_multiple_currencies">>]
    ELSE [res   |-> Returns(Text(_format_multiple_conversions_response(m.res.ret))),
          sent  |-> m.sent,
          trace |-> <<"_extract_conversions", "convert_multiple_currencies",
                      "_format_multiple_conversions_response">>]

\* the escalation branch of process_query once _process_with_llm is done
escalated(l) ==
    [res   |-> IF IsRaise(l.res) THEN QueryApology(l.res) ELSE l.res,
     sent  |-> l.sent,
     trace |-> <<"_extract_conversions", "_process_with_llm">>]

\* process_query as it would be if it ran the escalation a second time
process_query_retrying(query, conversation_history, llm_answer, answers) ==
    Let(_process_with_llm(query, conversation_history, llm_answer, answers), LAMBDA l :
        [res   |-> l.res,
         sent  |-> l.sent \o l.sent,
         trace |-> <<"_extract_conversions", "_process_with_llm", "_process_with_llm">>])

\* LLMService.process_query.  [res, sent, trace]: trace names the steps
\* taken, in order.
process_query(query, conversation_history, llm_answer, answers) ==
    Let(_extract_conversions(query), LAMBDA conversions :
        IF Len(conversions) >= 1
        THEN direct_conversions(convert_multiple_currencies(conversions, answers))
        ELSE escalated(_process_with_llm(query, conversation_history,
                                         llm_answer, answers)))

(***************************************************************************)
(* Conversation store: ConversationService                                 *)
(* The dict conversations is a function whose domain is its set of keys.   *)
(***************************************************************************)
\* conversations[session_id] = value
SetItem(convs, session_id, value) ==
    [k \in DOMAIN convs \cup {session_id} |->
        IF k = session_id THEN value ELSE convs[k]]

\* add_message as it would be if it inserted at the head of the list
add_message_at_head(convs, session_id, message) ==
    SetItem(convs, session_id, <<message>> \o
                IF session_id \in DOMAIN convs THEN convs[session_id] ELSE <<>>)

\* add_message as it would be if all sessions shared one list
add_message_shared(convs, session_id, message) ==
    [k \in DOMAIN convs \cup {session_id} |->
        Append(IF k \in DOMAIN convs THEN convs[k] ELSE <<>>, message)]

\* if session_id not in self.conversations: self.conversations[session_id] = []
EnsureSession(convs, session_id) ==
    IF session_id \notin DOMAIN convs
    THEN SetItem(convs, session_id, <<>>)
    ELSE convs

\* ConversationService.get_conversation: [convs, ret]
get_conversation(convs, session_id) ==
    [convs |-> EnsureSession(convs, session_id),
     ret   |-> EnsureSession(convs, session_id)[session_id]]

\* ConversationService.add_message: the dict afterwards
add_message(convs, session_id, message) ==
    SetItem(EnsureSession(convs, session_id), session_id,
            Append(EnsureSession(convs, session_id)[session_id], message))

\* ConversationService.clear_conversation: the dict afterwards
clear_conversation(convs, session_id) ==
    SetItem(convs, session_id, <<>>)

(***************************************************************************)
(* HTTP handlers: app/main.py                                              *)
(* A handler's outcome is [status, ...]: 200 with a body, 422 when the     *)
(* request model rejects the request, 500 with the detail of the           *)
(* HTTPException.                                                          *)
(***************************************************************************)
\* the parameters of the functions main.py reaches through the class
\* ConversationService instead of the instance conversation_service
method_parameters ==
    [get_conversation   |-> <<"self", "session_id">>,
     clear_conversation |-> <<"self", "session_id">>]

\* calling the plain function Class.method(*args): Python binds the
\* arguments to the parameters in order, self included
call_on_class(method, args) ==
    IF Len(args) < Len(method_parameters[method])
    THEN Raises("TypeError",
                <<Lit("ConversationService."), Lit(method),
                  Lit("() missing 1 required positional argument: '"),
                  Lit(method_parameters[method][Len(method_parameters[method])]),
                  Lit("'")>>)
    ELSE Returns([i \in DOMAIN method_parameters[method] |-> args[i]])

\* the HTTPException both handlers raise from their except clause
InternalServerError(e) ==
    [status |-> 500, detail |-> <<Lit("Internal server error: ")>> \o e.msg]

\* the body of ConversationResponse
ConversationResponse(session_id, messages) ==
    [status |-> 200,
     body |-> [session_id     |-> session_id,
               messages       |-> messages,
               total_messages |-> Len(messages)]]

\* main.get_conversation (GET /api/v1/conversations/{session_id}):
\* [convs, response]
http_get_conversation(convs, session_id) ==
    Let(call_on_class("get_conversation", <<session_id>>), LAMBDA call :
        IF IsRaise(call)
        THEN [convs |-> convs, response |-> InternalServerError(call)]
        ELSE Let(get_conversation(convs, call.ret[2]), LAMBDA g :
                 [convs    |-> g.convs,
                  response |-> ConversationResponse(session_id, g.ret)]))

\* main.clear_conversation (POST /api/v1/conversations/{session_id}/clear):
\* [convs, response]
http_clear_conversation(convs, session_id) ==
    Let(call_on_class("clear_conversation", <<session_id>>), LAMBDA call :
        IF IsRaise(call)
        THEN [convs |-> convs, response |-> InternalServerError(call)]
        ELSE [convs    |-> clear_conversation(convs, call.ret[2]),
              response |-> [status |-> 200,
                            body |-> [message |-> <<Lit("Conversation "), Lit(session_id.id),
                                                    Lit(" cleared successfully")>>]]])

\* ChatRequest.message: max_length
MaxMessageLength == 500

\* a session id: an opaque str
SessionId(name) == [id |-> name]

\* ChatRequest as it would be without min_length and validate_message
ChatRequestUnvalidated(request, generated) ==
    [valid      |-> TRUE,
     message    |-> Strip(request.message),
     session_id |-> IF request.session_id = <<>>
                    THEN generated
                    ELSE request.session_id[1]]

\* the ChatRequest model applied to a request
\* [message |-> text, session_id |-> <<>> (not given) | <<None>> | <<id>>]:
\* [valid |-> FALSE] or the validated fields; generated is the uuid4 the
\* default factory draws when session_id is not given
ChatRequest(request, generated) ==
    IF \/ Len(request.message) < 1
       \/ Len(request.message) > MaxMessageLength
       \/ Strip(request.message) = <<>>
    THEN [valid |-> FALSE]
    ELSE [valid      |-> TRUE,
          message    |-> Strip(request.message),
          session_id |-> IF request.session_id = <<>>
                         THEN generated
                         ELSE request.session_id[1]]

\* the line chat_completion builds for one result
conversion_line(item) ==
    IF HasError(item)
    THEN <<Lit("(x) ")>> \o item.error
    ELSE <<Float(item.amount), Lit(" "), Str(item.from_currency), Lit(" = "),
           Fixed(item.converted_amount, 1000, 2), Lit(" "), Str(item.to_currency)>>

\* the rate line chat_completion builds for one successful result
rate_line(item) ==
    <<Lit("1 "), Str(item.from_currency), Lit(" = "),
      Fixed(item.exchange_rate, 1000000, 4), Lit(" "), Str(item.to_currency)>>

\* the results without an "error" key, in order
Successes(results) == SelectSeq(results, LAMBDA r : ~HasError(r))

\* the response text chat_completion builds from the batch results
chat_response_text(results) ==
    JoinFrom(<< <<Lit("(clock) "), Lit("%H:%M:%S")>>,
                <<>>,
                JoinFrom([i \in DOMAIN results |-> conversion_line(results[i])],
                         Lit("\n"), 1),
                <<>>,
                <<Lit("Exchange Rates:")>>,
                JoinFrom([i \in DOMAIN Successes(results) |->
                            rate_line(Successes(results)[i])],
                         Lit("\n"), 1) >>,
             Lit("\n"), 1)

\* the inner try of chat_completion: [text, sent, trace]
chat_conversions(message, answers) ==
    Let(parse_conversion_query(message), LAMBDA parsed :
        IF IsRaise(parsed)
        THEN \* except ValueError
             [text  |-> <<Lit("(x) ")>> \o parsed.msg,
              sent  |-> <<>>,
              trace |-> <<"parse_conversion_query">>]
        ELSE Let(batch_convert_currencies(parsed.ret, answers), LAMBDA batch :
                 [text  |-> chat_response_text(batch.res.ret),
                  sent  |-> batch.sent,
                  trace |-> <<"parse_conversion_query", "batch_convert_currencies">>]))

\* chat_completion after the inner try, as it would be if it stored the
\* user's message only
chat_respond_user_only(convs, req, c) ==
    [convs    |-> add_message(convs, req.session_id,
                              [role |-> "user", content |-> <<Str(req.message)>>]),
     response |-> [status |-> 200,
                   body |-> [response   |-> Text(c.text),
                             session_id |-> req.session_id]],
     sent     |-> c.sent,
     trace    |-> c.trace]

\* chat_completion after the inner try
chat_respond(convs, req, c) ==
    IF req.session_id = None
    THEN \* ChatResponse(session_id=None): session_id must be a str
         [convs    |-> convs,
          response |-> InternalServerError(
                          Raises("ValidationError",
                                 <<Lit("1 validation error for ChatResponse session_id")>>)),
          sent     |-> c.sent,
          trace    |-> c.trace]
    ELSE [convs    |-> add_message(
                          add_message(convs, req.session_id,
                                      [role |-> "user",
                                       content |-> <<Str(req.message)>>]),
                          req.session_id,
                          [role |-> "assistant", content |-> c.text]),
          response |-> [status |-> 200,
                        body |-> [response   |-> Text(c.text),
                                  session_id |-> req.session_id]],
          sent     |-> c.sent,
          trace    |-> c.trace]

\* main.chat_completion (POST /api/v1/chat/completions), given the rate
\* service's answers to the requests of the batch:
\* [convs, response, sent, trace]
chat_completion(convs, request, generated, answers) ==
    Let(ChatRequest(request, generated), LAMBDA req :
        IF ~req.valid
        THEN [convs |-> convs, response |-> [status |-> 422], sent |-> <<>>,
              trace |-> <<>>]
        ELSE chat_respond(convs, req, chat_conversions(req.message, answers)))

RECURSIVE batch_until_await(_, _, _)
\* the loop of batch_convert_currencies from item i on, up to its next
\* suspension: an item whose convert_currency raises before it sends its
\* request is answered at once; the loop stops at the first item that sends
\* its request (await client.get) or at its end.  [i, results, sent]
batch_until_await(conversions, i, results) ==
    IF i > Len(conversions)
    THEN [i |-> i, results |-> results, sent |-> <<>>]
    ELSE Let(convert_currency(conversions[i][1], conversions[i][2],
                              conversions[i][3],
                              [kind |-> "transport", detail |-> "not sent"]), LAMBDA c :
             IF c.sent = <<>>
             THEN batch_until_await(conversions, i + 1,
                                    Append(results, batch_item(conversions[i], c)))
             ELSE [i |-> i, results |-> results, sent |-> c.sent])

\* chat_completion from the end of the batch loop, or from a parse error, on:
\* the response is built and the two messages are added, with no await in
\* between.  [task, convs, response, sent]
chat_finish(convs, task, text) ==
    Let(chat_respond(convs, task.req, [text |-> text, sent |-> <<>>, trace |-> <<>>]),
        LAMBDA r :
        [task     |-> [task EXCEPT !.pc = "done"],
         convs    |-> r.convs,
         response |-> <<r.response>>,
         sent     |-> <<>>])

\* chat_completion inside the batch loop, item task.i being the next to
\* start: it runs to the next await, or to its end
chat_continue(convs, task) ==
    Let(batch_until_await(task.conversions, task.i, task.results), LAMBDA b :
        IF b.i > Len(task.conversions)
        THEN chat_finish(convs, [task EXCEPT !.i = b.i, !.results = b.results],
                         chat_response_text(b.results))
        ELSE [task     |-> [task EXCEPT !.pc = "awaiting", !.i = b.i,
                                        !.results = b.results],
              convs    |-> convs,
              response |-> <<>>,
              sent     |-> b.sent])

\* chat_completion from the arrival of the request to its first await, or to
\* its end when nothing is awaited
chat_start(convs, task) ==
    IF ~task.req.valid
    THEN [task |-> [task EXCEPT !.pc = "done"], convs |-> convs,
          response |-> <<[status |-> 422]>>, sent |-> <<>>]
    ELSE Let(parse_conversion_query(task.req.message), LAMBDA parsed :
             IF IsRaise(parsed)
             THEN chat_finish(convs, task, <<Lit("(x) ")>> \o parsed.msg)
             ELSE chat_continue(convs, [task EXCEPT !.conversions = parsed.ret]))

\* chat_completion resumed with the rate service's answer to the request of
\* item task.i: the item's result is added and the loop goes on
chat_resume(convs, task, answer) ==
    Let(convert_currency(task.conversions[task.i][1], task.conversions[task.i][2],
                         task.conversions[task.i][3], answer), LAMBDA c :
        chat_continue(convs,
                      [task EXCEPT !.i = task.i + 1,
                                   !.results = Append(task.results,
                                                      batch_item(task.conversions[task.i], c))]))

(***************************************************************************)
(* Inputs: the requests, queries and service answers the runs draw from    *)
(***************************************************************************)
\* "Convert 100 USD to EUR"
QueryConvert ==
    <<"C","o","n","v","e","r","t"," ","1","0","0"," ","U","S","D"," ","t",
      "o"," ","E","U","R">>

\* "What's the weather today?"
QueryWeather ==
    <<"W","h","a","t","'","s"," ","t","h","e"," ","w","e","a","t","h","e",
      "r"," ","t","o","d","a","y","?">>

\* "100 USD to EUR and 200 GBP to JPY"
QueryTwo ==
    <<"1","0","0"," ","U","S","D"," ","t","o"," ","E","U","R"," ","a","n",
      "d"," ","2","0","0"," ","G","B","P"," ","t","o"," ","J","P","Y">>

\* "100 USD to XYZ and 50 GBP to JPY"
QueryUnsupported ==
    <<"1","0","0"," ","U","S","D"," ","t","o"," ","X","Y","Z"," ","a","n",
      "d"," ","5","0"," ","G","B","P"," ","t","o"," ","J","P","Y">>

\* "please convert 10.5 usd to eur"
QueryPlease ==
    <<"p","l","e","a","s","e"," ","c","o","n","v","e","r","t"," ","1","0",
      ".","5"," ","u","s","d"," ","t","o"," ","e","u","r">>

\* "0 USD to EUR"
QueryZero ==
    <<"0"," ","U","S","D"," ","t","o"," ","E","U","R">>

\* "100 USD to USD"
QuerySame ==
    <<"1","0","0"," ","U","S","D"," ","t","o"," ","U","S","D">>

\* "   "
QueryBlank ==
    <<" "," "," ">>

\* the messages clients send
Queries ==
    {QueryConvert, QueryWeather, QueryTwo, QueryUnsupported, QueryPlease,
     QueryZero, QuerySame, QueryBlank}

\* the most messages a session holds in the runs of this model
MaxMessages == 2

\* the most requests in one batch
MaxBatch == 3

\* the most tool calls in one LLM answer
MaxToolCalls == 2

\* the session ids clients send, and the one uuid4 draws
SessionIds == {SessionId("s1"), SessionId("s2")}

GeneratedIds == {SessionId("uuid-1")}

\* the messages callers of add_message append
MessagePool ==
    {[role |-> "user", content |-> <<Lit("hello")>>],
     [role |-> "assistant", content |-> <<Lit("hi")>>],
     [role |-> "system", content |-> <<Lit("note")>>]}

USD == <<"U", "S", "D">>
EUR == <<"E", "U", "R">>
GBP == <<"G", "B", "P">>
JPY == <<"J", "P", "Y">>
XYZ == <<"X", "Y", "Z">>

\* the rate service's possible answers to one request
RateAnswers ==
    {[kind |-> "transport", detail |-> "All connection attempts failed"],
     [kind |-> "status", status |-> 500, detail |-> "Internal Server Error"],
     [kind |-> "notjson", detail |-> "Expecting value: line 1 column 1 (char 0)"],
     [kind |-> "json", rate |-> <<>>, date |-> <<"2024-01-15">>, currencies |-> <<>>],
     [kind |-> "json", rate |-> <<85126>>, date |-> <<"2024-01-15">>,
      currencies |-> <<{<<USD, "United States Dollar">>, <<EUR, "Euro">>}>>]}

\* an answer with which a supported conversion succeeds
GoodAnswer ==
    [kind |-> "json", rate |-> <<85126>>, date |-> <<"2024-01-15">>,
     currencies |-> <<{<<USD, "United States Dollar">>, <<EUR, "Euro">>}>>]

\* the sequences of length n over the set S
SeqsOfLen(S, n) == [1..n -> S]

\* the sequences of length at most n over the set S
SeqsUpTo(S, n) == UNION {SeqsOfLen(S, k) : k \in 0..n}

\* the requests handed to the batch engines
ConversionPool ==
    {<<100000, USD, EUR>>, <<200000, GBP, JPY>>, <<50000, USD, XYZ>>}

\* a request as the dict _extract_conversions builds
AsDict(c) == [amount |-> c[1], from_currency |-> c[2], to_currency |-> c[3]]

\* the rate service's answers drawn for tool calls and chat requests
FewRateAnswers ==
    {[kind |-> "transport", detail |-> "All connection attempts failed"],
     [kind |-> "json", rate |-> <<>>, date |-> <<"2024-01-15">>, currencies |-> <<>>],
     GoodAnswer}

\* a tool call naming function name with the JSON object args
ToolCall(name, args) ==
    [function |-> <<[name |-> <<name>>, arguments |-> <<args>>]>>]

\* a JSON object of tool-call arguments
Arguments(amount, from_currency, to_currency, date) ==
    [valid |-> TRUE, amount |-> amount, from_currency |-> from_currency,
     to_currency |-> to_currency, date |-> date]

\* "2024-01-15"
DateGiven == <<"2", "0", "2", "4", "-", "0", "1", "-", "1", "5">>

\* the tool calls an LLM answer is made of
ToolCallPool ==
    {ToolCall("convert_currency", Arguments(<<100000>>, <<USD>>, <<EUR>>, <<>>)),
     ToolCall("convert_currency", Arguments(<<>>, <<USD>>, <<EUR>>, <<>>)),
     ToolCall("convert_currency", [valid |-> FALSE, detail |-> "Expecting value: line 1 column 1 (char 0)"]),
     ToolCall("get_supported_currencies", Arguments(<<>>, <<>>, <<>>, <<>>)),
     ToolCall("get_historical_rate", Arguments(<<>>, <<USD>>, <<EUR>>, <<DateGiven>>)),
     ToolCall("get_weather", Arguments(<<>>, <<>>, <<>>, <<>>)),
     [function |-> <<[name |-> <<>>, arguments |-> <<>>]>>]}

\* the LLM service's possible answers to one POST
LLMAnswers ==
    {[kind |-> "transport", detail |-> "All connection attempts failed"],
     [kind |-> "status", status |-> 429, detail |-> "Too Many Requests"],
     [kind |-> "notjson", detail |-> "Expecting value: line 1 column 1 (char 0)"],
     [kind |-> "json", message |-> <<>>],
     [kind |-> "json", message |-> <<[content |-> <<>>, tool_calls |-> <<>>]>>],
     [kind |-> "json", message |-> <<[content |-> <<None>>, tool_calls |-> <<>>]>>],
     [kind |-> "json", message |-> <<[content |-> <<Text(<<Lit("It is sunny.")>>)>>,
                                      tool_calls |-> <<>>]>>],
     [kind |-> "json", message |-> <<[content |-> <<Text(<<Lit("It is sunny.")>>)>>,
                                      tool_calls |-> << <<>> >>]>>]}
    \cup {[kind |-> "json", message |-> <<[content |-> <<None>>, tool_calls |-> <<calls>>]>>] :
            calls \in SeqsUpTo(ToolCallPool, MaxToolCalls) \ {<<>>}}

\* the conversation histories handed to process_query
Histories ==
    {<<>>,
     <<[role |-> "user", content |-> <<Lit("hello")>>],
       [role |-> "assistant", content |-> <<Lit("hi")>>]>>}

\* the messages of chat requests
ChatMessages == {QueryConvert, QueryWeather, QueryUnsupported, QueryBlank, <<>>}

\* the session ids chat clients send
ChatSessionIds == {SessionId("s1")}

\* the session_id field of chat requests: absent, null, or a str
ChatSessionFields == {<<>>, <<None>>} \cup {<<s>> : s \in ChatSessionIds}

(***************************************************************************)
(* The state machine                                                       *)
(***************************************************************************)
\* the empty dict
EmptyDict == [k \in {} |-> <<>>]

\* conversations.get(session_id, []) without touching the dict
Stored(convs, session_id) ==
    IF session_id \in DOMAIN convs THEN convs[session_id] ELSE <<>>

Init ==
    /\ conversations = EmptyDict
    /\ op = [name |-> "start"]
    /\ result = None
    /\ outbound = <<>>
    /\ trace = <<>>

\* conversation_service.get_conversation(session_id)
GetConversation(session_id) ==
    \E g \in {get_conversation(conversations, session_id)} :
        /\ conversations' = g.convs
        /\ op' = [name |-> "get_conversation", session_id |-> session_id]
        /\ result' = Returns(g.ret)
        /\ outbound' = <<>>
        /\ trace' = <<>>

\* conversation_service.add_message(session_id, message)
AddMessage(session_id, message) ==
    /\ Len(Stored(conversations, session_id)) < MaxMessages
    /\ conversations' = add_message(conversations, session_id, message)
    /\ op' = [name |-> "add_message", session_id |-> session_id, message |-> message]
    /\ result' = Returns(None)
    /\ outbound' = <<>>
    /\ trace' = <<>>

\* conversation_service.clear_conversation(session_id)
ClearConversation(session_id) ==
    /\ conversations' = clear_conversation(conversations, session_id)
    /\ op' = [name |-> "clear_conversation", session_id |-> session_id]
    /\ result' = Returns(None)
    /\ outbound' = <<>>
    /\ trace' = <<>>

\* GET /api/v1/conversations/{session_id}
HttpGetConversation(session_id) ==
    \E h \in {http_get_conversation(conversations, session_id)} :
        /\ conversations' = h.convs
        /\ op' = [name |-> "http_get_conversation", session_id |-> session_id,
                  seen |-> session_id \in DOMAIN conversations]
        /\ result' = h.response
        /\ outbound' = <<>>
        /\ trace' = <<>>

\* POST /api/v1/conversations/{session_id}/clear
HttpClearConversation(session_id) ==
    \E h \in {http_clear_conversation(conversations, session_id)} :
        /\ conversations' = h.convs
        /\ op' = [name |-> "http_clear_conversation", session_id |-> session_id,
                  seen |-> session_id \in DOMAIN conversations]
        /\ result' = h.response
        /\ outbound' = <<>>
        /\ trace' = <<>>

\* POST /api/v1/chat/completions
ChatCompletion(request, generated, answers) ==
    \E h \in {chat_completion(conversations, request, generated, answers)} :
        /\ \A s \in DOMAIN h.convs : Len(h.convs[s]) <= MaxMessages
        /\ conversations' = h.convs
        /\ op' = [name |-> "chat_completion", request |-> request,
                  generated |-> generated, answers |-> answers]
        /\ result' = h.response
        /\ outbound' = h.sent
        /\ trace' = h.trace

\* the result of a call that has been made and has not returned yet
Pending == [pending |-> TRUE]

\* currency_service.batch_convert_currencies(conversions) runs to its end
BatchConvert ==
    /\ op.name = "batch_convert_currencies"
    /\ result = Pending
    /\ \E b \in {batch_convert_currencies(op.conversions, op.answers)} :
           /\ result' = b.res
           /\ outbound' = b.sent
    /\ UNCHANGED <<conversations, op, trace>>

\* currency_service.convert_multiple_currencies(conversions) runs to its end
ConvertMultiple ==
    /\ op.name = "convert_multiple_currencies"
    /\ result = Pending
    /\ \E m \in {convert_multiple_currencies(op.conversion_dicts, op.answers)} :
           /\ result' = m.res
           /\ outbound' = m.sent
    /\ UNCHANGED <<conversations, op, trace>>

\* llm_service.process_query(query, conversation_history) runs to its end
ProcessQuery ==
    /\ op.name = "process_query"
    /\ result = Pending
    /\ \E p \in {process_query(op.query, op.conversation_history,
                               op.llm_answer, op.answers)} :
           /\ result' = p.res
           /\ outbound' = p.sent
           /\ trace' = p.trace
    /\ UNCHANGED <<conversations, op>>

\* a call of batch_convert_currencies: the requests, and the rate service's
\* answer to each
BatchCall(conversions, answers) ==
    [name |-> "batch_convert_currencies", conversions |-> conversions,
     answers |-> answers]

\* a call of convert_multiple_currencies: the requests as dicts, and the rate
\* service's answer to each
MultipleCall(conversions, answers) ==
    [name |-> "convert_multiple_currencies",
     conversion_dicts |-> [i \in DOMAIN conversions |-> AsDict(conversions[i])],
     answers |-> answers]

\* a call of process_query: the query, the history, the LLM service's answer
\* and the rate service's answer to each request
QueryCall(query, conversation_history, llm_answer, answers) ==
    [name |-> "process_query", query |-> query,
     conversation_history |-> conversation_history,
     llm_answer |-> llm_answer, answers |-> answers]

\* a call of a batch engine has been made
InitEngine ==
    /\ conversations = EmptyDict
    /\ \E cs \in SeqsUpTo(ConversionPool, MaxBatch) :
         \E as \in SeqsOfLen(RateAnswers, Len(cs)) :
            op \in {BatchCall(cs, as), MultipleCall(cs, as)}
    /\ result = Pending
    /\ outbound = <<>>
    /\ trace = <<>>

\* a call of process_query has been made
InitLLM ==
    /\ conversations = EmptyDict
    /\ \E q \in Queries \ {QueryBlank}, h \in Histories, l \in LLMAnswers :
         \E as \in SeqsOfLen(FewRateAnswers, MaxToolCalls) :
            op = QueryCall(q, h, l, as)
    /\ result = Pending
    /\ outbound = <<>>
    /\ trace = <<>>

\* the conversation store, used through its methods and through the two
\* conversation endpoints
NextStore ==
    \/ \E s \in SessionIds : GetConversation(s)
    \/ \E s \in SessionIds, m \in MessagePool : AddMessage(s, m)
    \/ \E s \in SessionIds : ClearConversation(s)
    \/ \E s \in SessionIds : HttpGetConversation(s)
    \/ \E s \in SessionIds : HttpClearConversation(s)

\* the batch engines
NextEngine == BatchConvert \/ ConvertMultiple

\* the LLM orchestrator
NextLLM == ProcessQuery

\* the number of rate requests a chat message causes at most
RequestCount(message) ==
    Let(parse_conversion_query(Strip(message)), LAMBDA parsed :
        IF IsRaise(parsed) THEN 0 ELSE Len(parsed.ret))

\* the HTTP surface
NextChat ==
    \/ \E m \in ChatMessages, sid \in ChatSessionFields, g \in GeneratedIds :
         \E as \in SeqsOfLen(FewRateAnswers, RequestCount(m)) :
            ChatCompletion([message |-> m, session_id |-> sid], g, as)
    \/ \E s \in ChatSessionIds \cup GeneratedIds : HttpGetConversation(s)
    \/ \E s \in ChatSessionIds \cup GeneratedIds : HttpClearConversation(s)

\* the longest list of conjoined phrases in a text handed to the extractor
MaxPhrases == 2

\* the number of times the extractor is called on one text
MaxCalls == 2

\* well-formed phrases "<amount> <CODE1> to <CODE2>" in several letter cases,
\* each with the request it asks for
Phrases ==
    {
     \* "100 USD to EUR"
     [text |->
        <<"1","0","0"," ","U","S","D"," ","t","o"," ","E","U","R">>,
      request |-> [amount |-> 100000, from_currency |-> <<"U", "S", "D">>,
                   to_currency |-> <<"E", "U", "R">>]],
     \* "50.5 gbp TO jpy"
     [text |->
        <<"5","0",".","5"," ","g","b","p"," ","T","O"," ","j","p","y">>,
      request |-> [amount |-> 50500, from_currency |-> <<"G", "B", "P">>,
                   to_currency |-> <<"J", "P", "Y">>]],
     \* "7 Inr to Usd"
     [text |->
        <<"7"," ","I","n","r"," ","t","o"," ","U","s","d">>,
      request |-> [amount |-> 7000, from_currency |-> <<"I", "N", "R">>,
                   to_currency |-> <<"U", "S", "D">>]]}

\* what a text may start with: nothing, "Convert " or "CONVERT "
Prefixes ==
    {<<>>,
     <<"C","o","n","v","e","r","t"," ">>,
     <<"C","O","N","V","E","R","T"," ">>}

RECURSIVE Conjoined(_)
\* the text of the phrases ps joined by " and "
Conjoined(ps) ==
    IF Len(ps) = 1 THEN ps[1].text
    ELSE ps[1].text \o AndSeparator \o Conjoined(Tail(ps))

\* other texts handed to the extractor: the empty text, questions, and near
\* misses of the pattern
OtherTexts ==
    {<<>>,
     \* "What is the weather?"
     <<"W","h","a","t"," ","i","s"," ","t","h","e"," ","w","e","a","t","h",
       "e","r","?">>,
     \* "100 USD"
     <<"1","0","0"," ","U","S","D">>,
     \* "USD to EUR"
     <<"U","S","D"," ","t","o"," ","E","U","R">>,
     \* "100 US to EUR"
     <<"1","0","0"," ","U","S"," ","t","o"," ","E","U","R">>,
     \* "100 USDX to EUR"
     <<"1","0","0"," ","U","S","D","X"," ","t","o"," ","E","U","R">>,
     \* "convert dollars to euros"
     <<"c","o","n","v","e","r","t"," ","d","o","l","l","a","r","s"," ","t",
       "o"," ","e","u","r","o","s">>,
     \* "1 0 0 usd eur"
     <<"1"," ","0"," ","0"," ","u","s","d"," ","e","u","r">>,
     \* "100 USD into EUR"
     <<"1","0","0"," ","U","S","D"," ","i","n","t","o"," ","E","U","R">>,
     \* "100 USD in EUR"
     <<"1","0","0"," ","U","S","D"," ","i","n"," ","E","U","R">>}

\* a text has been handed to _extract_conversions
InitExtract ==
    /\ conversations = EmptyDict
    /\ \/ \E t \in OtherTexts :
            op = [name |-> "_extract_conversions", query |-> t]
       \/ \E prefix \in Prefixes :
            \E ps \in SeqsUpTo(Phrases, MaxPhrases) \ {<<>>} :
               op = [name |-> "_extract_conversions",
                     query |-> prefix \o Conjoined(ps)]
    /\ result = Pending
    /\ outbound = <<>>
    /\ trace = <<>>

\* llm_service._extract_conversions(query) is called, once more
ExtractConversions ==
    /\ op.name = "_extract_conversions"
    /\ Len(trace) < MaxCalls
    /\ result' = Returns(_extract_conversions(op.query))
    /\ trace' = Append(trace, "_extract_conversions")
    /\ UNCHANGED <<conversations, op, outbound>>

\* words a text may start with before its first phrase: none, "please " or
\* "please convert "
Leads ==
    {<<>>,
     <<"p","l","e","a","s","e"," ">>,
     <<"p","l","e","a","s","e"," ","c","o","n","v","e","r","t"," ">>}

\* what may stand between two phrases: " and ", ", ", " " or nothing
Separators == {AndSeparator, <<",", " ">>, <<" ">>, <<>>}

RECURSIVE Joined(_, _)
\* the text of the phrases ps with sep between them
Joined(ps, sep) ==
    IF Len(ps) = 1 THEN ps[1].text
    ELSE ps[1].text \o sep \o Joined(Tail(ps), sep)

\* a text of phrases has been handed to one of the two parsers of queries
InitScan ==
    /\ conversations = EmptyDict
    /\ \E lead \in Leads, sep \in Separators :
          \E ps \in SeqsUpTo(Phrases, MaxPhrases) \ {<<>>} :
             \E name \in {"_extract_conversions", "parse_conversion_query"} :
                op = [name |-> name, query |-> lead \o Joined(ps, sep)]
    /\ result = Pending
    /\ outbound = <<>>
    /\ trace = <<>>

\* currency_service.parse_conversion_query(query) is called, as the chat
\* endpoint calls it
ParseConversionQuery ==
    /\ op.name = "parse_conversion_query"
    /\ result = Pending
    /\ result' = parse_conversion_query(op.query)
    /\ trace' = Append(trace, "parse_conversion_query")
    /\ UNCHANGED <<conversations, op, outbound>>

\* the results handed to the formatter: two successes, a failure of
\* batch_convert_currencies and a failure of convert_multiple_currencies
ResultPool ==
    {[amount |-> 100000, from_currency |-> USD, to_currency |-> EUR,
      converted_amount |-> 85130, exchange_rate |-> 851260, date |-> "2024-01-15"],
     [amount |-> 10500, from_currency |-> GBP, to_currency |-> JPY,
      converted_amount |-> 1998370, exchange_rate |-> 190320762, date |-> "today"],
     [error |-> <<Lit("Unsupported target currency: "), Str(XYZ)>>,
      amount |-> 50000, from_currency |-> USD, to_currency |-> XYZ],
     [error |-> <<Lit("Error converting "), Str(USD), Lit(" to "), Str(EUR)>>,
      conversion |-> [amount |-> 100000, from_currency |-> USD, to_currency |-> EUR]]}

\* a list of results has been handed to the formatter
InitFormat ==
    /\ conversations = EmptyDict
    /\ \E rs \in SeqsUpTo(ResultPool, MaxBatch) :
          op = [name |-> "_format_multiple_conversions_response", results |-> rs]
    /\ result = Pending
    /\ outbound = <<>>
    /\ trace = <<>>

\* llm_service._format_multiple_conversions_response(results) runs
FormatResponse ==
    /\ op.name = "_format_multiple_conversions_response"
    /\ result = Pending
    /\ result' = Returns(Text(_format_multiple_conversions_response(op.results)))
    /\ UNCHANGED <<conversations, op, outbound, trace>>

\* the dates get_historical_rate is called with
HistoricalDates ==
    {
     \* "2024-01-15"
     <<"2", "0", "2", "4", "-", "0", "1", "-", "1", "5">>,
     \* "1990-01-01"
     <<"1", "9", "9", "0", "-", "0", "1", "-", "0", "1">>,
     \* "1999-01-03"
     <<"1", "9", "9", "9", "-", "0", "1", "-", "0", "3">>,
     \* "1999-01-04"
     <<"1", "9", "9", "9", "-", "0", "1", "-", "0", "4">>,
     \* "2030-01-01"
     <<"2", "0", "3", "0", "-", "0", "1", "-", "0", "1">>,
     \* "2024-1-5"
     <<"2", "0", "2", "4", "-", "1", "-", "5">>,
     \* "15/01/2024"
     <<"1", "5", "/", "0", "1", "/", "2", "0", "2", "4">>,
     \* "2024-02-30"
     <<"2", "0", "2", "4", "-", "0", "2", "-", "3", "0">>,
     \* "yesterday"
     <<"y", "e", "s", "t", "e", "r", "d", "a", "y">>,
     \* ""
     <<>>}

\* a call of get_historical_rate has been made
InitHistorical ==
    /\ conversations = EmptyDict
    /\ \E d \in HistoricalDates, t \in {EUR, JPY} :
         \E answer \in RateAnswers \cup
                       {[kind |-> "status", status |-> 400, detail |-> "bad request"]} :
            op = [name |-> "get_historical_rate", date_str |-> d,
                  from_currency |-> USD, to_currency |-> t, answer |-> answer]
    /\ result = Pending
    /\ outbound = <<>>
    /\ trace = <<>>

\* currency_service.get_historical_rate(date_str, from_currency, to_currency)
\* runs to its end
GetHistoricalRate ==
    /\ op.name = "get_historical_rate"
    /\ result = Pending
    /\ \E h \in {get_historical_rate(op.date_str, op.from_currency,
                                     op.to_currency, op.answer)} :
           /\ result' = h.res
           /\ outbound' = h.sent
    /\ UNCHANGED <<conversations, op, trace>>

\* the longest history handed to _process_with_llm
MaxHistory == 12

\* a history of n messages, each with its own content, user and assistant
\* in turn
HistoryOfLen(n) ==
    [i \in 1..n |-> [role    |-> IF i % 2 = 1 THEN "user" ELSE "assistant",
                     content |-> <<Lit("message "), Integer(i)>>]]

\* a call of _process_with_llm has been made
InitEscalate ==
    /\ conversations = EmptyDict
    /\ \E q \in {QueryWeather, QueryBlank}, n \in 0..MaxHistory :
         \E l \in {a \in LLMAnswers :
                     a.kind = "json" => (a.message = <<>> \/ a.message[1].tool_calls = <<>>)} :
            op = [name |-> "_process_with_llm", query |-> q,
                  conversation_history |-> HistoryOfLen(n), llm_answer |-> l]
    /\ result = Pending
    /\ outbound = <<>>
    /\ trace = <<>>

\* llm_service._process_with_llm(query, conversation_history) runs to its end
ProcessWithLLM ==
    /\ op.name = "_process_with_llm"
    /\ result = Pending
    /\ \E l \in {_process_with_llm(op.query, op.conversation_history,
                                   op.llm_answer, <<>>)} :
           /\ result' = l.res
           /\ outbound' = l.sent
    /\ UNCHANGED <<conversations, op, trace>>

\* the most chat requests in flight at once
MaxRequests == 2

\* the chat requests that arrive while others are in flight
ConcurrentChatRequests ==
    {[message |-> QueryConvert, session_id |-> <<s>>] : s \in SessionIds}
    \cup {[message |-> m, session_id |-> <<SessionId("s1")>>] : m \in {QueryTwo, QueryWeather}}
    \cup {[message |-> QueryConvert, session_id |-> <<None>>]}

\* the task of a chat request that has arrived and has not run yet
ChatTask(request) ==
    [req         |-> ChatRequest(request, SessionId("uuid-1")),
     pc          |-> "received",
     conversions |-> <<>>,
     i           |-> 1,
     results     |-> <<>>]

\* n chat requests have arrived at the event loop
InitChatRequests(n) ==
    /\ conversations = EmptyDict
    /\ \E requests \in SeqsOfLen(ConcurrentChatRequests, n) :
          op = [name  |-> "chat_requests",
                tasks |-> [id \in 1..n |-> ChatTask(requests[id])]]
    /\ result = [id \in 1..n |-> Pending]
    /\ outbound = <<>>
    /\ trace = <<>>

\* up to MaxRequests chat requests have arrived
InitConcurrent == \E n \in 1..MaxRequests : InitChatRequests(n)

\* one of the calls of InitLLM or one chat request is about to run
InitRuns ==
    \/ /\ InitLLM
       /\ op.conversation_history = <<>>
       /\ \A i \in DOMAIN op.answers : op.answers[i].kind # "json" \/ op.answers[i].rate # <<>>
    \/ InitChatRequests(1)

\* the event loop lets task id take the step that leads to s
TaskStep(id, s, event) ==
    /\ op' = [op EXCEPT !.tasks[id] = s.task]
    /\ conversations' = s.convs
    /\ result' = IF s.response = <<>> THEN result
                 ELSE [result EXCEPT ![id] = s.response[1]]
    /\ outbound' = outbound \o s.sent
    /\ trace' = Append(trace, [id |-> id, event |-> event])

\* the event loop starts chat_completion for request id
ChatStart(id) ==
    /\ op.name = "chat_requests"
    /\ id \in DOMAIN op.tasks
    /\ op.tasks[id].pc = "received"
    /\ \E s \in {chat_start(conversations, op.tasks[id])} : TaskStep(id, s, "start")

\* the rate service's answer arrives and the event loop resumes request id
ChatResume(id, answer) ==
    /\ op.name = "chat_requests"
    /\ id \in DOMAIN op.tasks
    /\ op.tasks[id].pc = "awaiting"
    /\ \E s \in {chat_resume(conversations, op.tasks[id], answer)} :
          TaskStep(id, s, "resume")

\* the rate service's answers to the requests of tasks in flight
ResumeAnswers ==
    {GoodAnswer, [kind |-> "transport", detail |-> "All connection attempts failed"]}

\* chat requests handled concurrently by the one event loop
NextConcurrent ==
    \/ \E id \in 1..MaxRequests : ChatStart(id)
    \/ \E id \in 1..MaxRequests, answer \in ResumeAnswers : ChatResume(id, answer)

\* one run of process_query or of chat_completion
NextRuns == ProcessQuery \/ NextConcurrent

\* "QQQ", a second code that is not in the allow-list
QQQ == <<"Q", "Q", "Q">>

\* the amounts convert_currency is called with: 100, 10.5, 0 and -5
ConvertAmounts == {100000, 10500, 0, -5000}

\* the codes convert_currency is called with
ConvertCodes == {USD, EUR, XYZ, QQQ}

\* the rate service's possible answers to the request of convert_currency
ConvertAnswers ==
    RateAnswers \cup
    {[kind |-> "transport", detail |-> "The read operation timed out"],
     [kind |-> "status", status |-> 404, detail |-> "Not Found"],
     [kind |-> "json", rate |-> <<100000>>, date |-> <<>>, currencies |-> <<>>],
     [kind |-> "json", rate |-> <<0>>, date |-> <<"2024-01-15">>, currencies |-> <<>>]}

\* a call of convert_currency and the rate service's answer to its request
ConvertCall(amount, from_currency, to_currency, answer) ==
    [name |-> "convert_currency", amount |-> amount,
     from_currency |-> from_currency, to_currency |-> to_currency,
     answer |-> answer]

\* a call of convert_currency has been made
InitConvert ==
    /\ conversations = EmptyDict
    /\ \E a \in ConvertAmounts, f \in ConvertCodes, t \in ConvertCodes :
         \E answer \in ConvertAnswers : op = ConvertCall(a, f, t, answer)
    /\ result = Pending
    /\ outbound = <<>>
    /\ trace = <<>>

\* currency_service.convert_currency(amount, from_currency, to_currency)
\* runs to its end
ConvertCurrency ==
    /\ op.name = "convert_currency"
    /\ result = Pending
    /\ \E c \in {convert_currency(op.amount, op.from_currency,
                                  op.to_currency, op.answer)} :
           /\ result' = c.res
           /\ outbound' = c.sent
    /\ UNCHANGED <<conversations, op, trace>>

\* the chat requests sent while the store is also used through its methods
SessionChatRequests ==
    {[message |-> m, session_id |-> <<SessionId("s1")>>] :
        m \in {QueryConvert, QueryWeather}}

\* the store's methods and chat requests, interleaved in any order
NextSessions ==
    \/ \E s \in SessionIds : GetConversation(s)
    \/ \E s \in SessionIds, m \in MessagePool : AddMessage(s, m)
    \/ \E s \in SessionIds : ClearConversation(s)
    \/ \E r \in SessionChatRequests, g \in GeneratedIds :
         \E as \in SeqsOfLen({GoodAnswer}, RequestCount(r.message)) :
            ChatCompletion(r, g, as)

(***************************************************************************)
(* Frontend: utils.session_manager.SessionManager.  The dict               *)
(* st.session_state["currency_converter_sessions"] is held in              *)
(* conversations; datetime.now() is a count of hours, and isoformat        *)
(* strings compare as those counts do.                                     *)
(***************************************************************************)
\* SessionManager.max_sessions
max_sessions == 10

\* SessionManager.session_timeout_hours
session_timeout_hours == 24

\* the number of interactions add_interaction keeps: interactions[-50:]
KeptInteractions == 50

\* the session_data of create_session (metadata, which never changes, is
\* left out)
new_session_data(session_id, now) ==
    [id               |-> session_id,
     created_at       |-> now,
     last_activity    |-> now,
     message_count    |-> 0,
     conversion_count |-> 0,
     interactions     |-> <<>>]

\* del sessions[k] for every k of gone
DelItems(sessions, gone) ==
    [k \in DOMAIN sessions \ gone |-> sessions[k]]

\* the sessions the second loop of _cleanup_old_sessions deletes: the n with
\* the earliest last_activity
ExcessSessions(sessions, n) ==
    CHOOSE gone \in SUBSET DOMAIN sessions :
        /\ Cardinality(gone) = n
        /\ \A g \in gone : \A k \in DOMAIN sessions \ gone :
              sessions[g].last_activity <= sessions[k].last_activity

\* SessionManager._cleanup_old_sessions: the dict afterwards
_cleanup_old_sessions(sessions, now) ==
    Let(DelItems(sessions, {k \in DOMAIN sessions :
                               sessions[k].last_activity < now - session_timeout_hours}),
        LAMBDA fresh :
            IF Cardinality(DOMAIN fresh) > max_sessions
            THEN DelItems(fresh, ExcessSessions(fresh, Cardinality(DOMAIN fresh) - max_sessions))
            ELSE fresh)

\* SessionManager.create_session: [sessions, ret]
create_session(sessions, session_id, now) ==
    [sessions |-> _cleanup_old_sessions(
                      SetItem(sessions, session_id, new_session_data(session_id, now)), now),
     ret      |-> new_session_data(session_id, now)]

\* SessionManager.get_session: [sessions, ret], ret = <<>> for None
get_session(sessions, session_id, now) ==
    IF session_id \in DOMAIN sessions
    THEN Let([sessions[session_id] EXCEPT !.last_activity = now], LAMBDA session_data :
             [sessions |-> SetItem(sessions, session_id, session_data),
              ret      |-> <<session_data>>])
    ELSE [sessions |-> sessions, ret |-> <<>>]

\* the indicators of _contains_conversion; an emoji is one character, written
\* by its name
conversion_indicators ==
    {<<"money_bag">>, <<"currency_exchange">>, <<"bar_chart">>,
     <<"E","x","c","h","a","n","g","e"," ","R","a","t","e">>,
     <<"C","o","n","v","e","r","s","i","o","n">>,
     <<"=">>,
     <<"R","a","t","e"," ","D","a","t","e">>}

\* SessionManager._contains_conversion
_contains_conversion(text) ==
    \E indicator \in conversion_indicators :
        \E i \in 1..Len(text) : ExactAt(text, i, indicator)

\* the dict interaction of add_interaction (its timestamp, which nothing
\* reads, is left out)
interaction_of(user_input, ai_response, now) ==
    [user_input          |-> user_input,
     ai_response         |-> ai_response,
     input_length        |-> Len(user_input),
     response_length     |-> Len(ai_response),
     contains_conversion |-> _contains_conversion(ai_response)]

\* interactions[:50], which add_interaction does not take
FirstKept(interactions) ==
    IF Len(interactions) > KeptInteractions
    THEN SubSeq(interactions, 1, KeptInteractions)
    ELSE interactions

\* interactions[-50:]
LastKept(interactions) ==
    IF Len(interactions) > KeptInteractions
    THEN SubSeq(interactions, Len(interactions) - KeptInteractions + 1, Len(interactions))
    ELSE interactions

\* add_interaction from line 77 on: session_data is the dict of the session,
\* sessions the dict of all sessions by then
record_interaction(sessions, session_data, session_id, user_input, ai_response, now) ==
    Let(interaction_of(user_input, ai_response, now), LAMBDA interaction :
        SetItem(sessions, session_id,
                [session_data EXCEPT
                    !.interactions = LastKept(Append(session_data.interactions, interaction)),
                    !.message_count = @ + 1,
                    !.last_activity = now,
                    !.conversion_count =
                        IF interaction.contains_conversion THEN @ + 1 ELSE @]))

\* SessionManager.add_interaction: the dict afterwards
add_interaction(sessions, session_id, user_input, ai_response, now) ==
    Let(get_session(sessions, session_id, now), LAMBDA got :
        IF got.ret = <<>>
        THEN Let(create_session(got.sessions, session_id, now), LAMBDA created :
                 record_interaction(created.sessions, created.ret, session_id,
                                    user_input, ai_response, now))
        ELSE record_interaction(got.sessions, got.ret[1], session_id,
                                user_input, ai_response, now))

\* SessionManager.clear_session: [sessions, ret]
clear_session(sessions, session_id) ==
    IF session_id \in DOMAIN sessions
    THEN [sessions |-> DelItems(sessions, {session_id}), ret |-> TRUE]
    ELSE [sessions |-> sessions, ret |-> FALSE]

\* the most add_interaction calls made on one session between two creations
MaxAdds == 52

\* the latest hour at which a call is made
MaxHours == 25

\* the hours that pass between one call and the next: none, or 25, which is
\* more than the session timeout
Elapsed == {0, 25}

\* the session ids of the browser tabs
TabIds == {SessionId("tab-1"), SessionId("tab-2")}

RECURSIVE Numeral(_)
\* str(k) for k >= 0
Numeral(k) ==
    IF k < 10 THEN <<Digits[k + 1]>>
    ELSE Numeral(k \div 10) \o <<Digits[(k % 10) + 1]>>

\* what the user types as the k-th message of a session: "convert <k> USD to EUR"
UserInput(k) ==
    <<"c","o","n","v","e","r","t"," ">> \o Numeral(k)
        \o <<" ","U","S","D"," ","t","o"," ","E","U","R">>

\* the backend's answer to it: a conversion line for odd k, the apology of
\* chat_completion for even k
AiResponse(k) ==
    IF k % 2 = 1
    THEN <<"money_bag", " ">> \o Numeral(k) \o <<" ","U","S","D"," ","="," ">>
             \o Numeral(k) \o <<" ","E","U","R">>
    ELSE <<"cross_mark", " ", "S","o","r","r","y",",", " ", "I", " ",
           "e","n","c","o","u","n","t","e","r","e","d", " ", "a","n", " ",
           "e","r","r","o","r">>

\* a SessionManager has been constructed and the session state is empty;
\* trace counts, for each tab, the add_interaction calls made since its
\* session was last created
InitManager ==
    /\ conversations = EmptyDict
    /\ op = [name |-> "SessionManager", now |-> 0]
    /\ result = None
    /\ outbound = <<>>
    /\ trace = [id \in TabIds |-> 0]

\* the hour of the next call
LaterHours == {op.now + e : e \in Elapsed} \cap 0..MaxHours

\* session_manager.create_session(session_id) is called
CreateSession ==
    /\ "now" \in DOMAIN op
    /\ \E session_id \in TabIds, now \in LaterHours :
          \E c \in {create_session(conversations, session_id, now)} :
             /\ conversations' = c.sessions
             /\ result' = c.ret
             /\ op' = [name |-> "create_session", session_id |-> session_id, now |-> now]
             /\ trace' = [trace EXCEPT ![session_id] = 0]
    /\ UNCHANGED outbound

\* session_manager.add_interaction(session_id, user_input, ai_response) is
\* called with the next message of that tab
AddInteraction ==
    /\ "now" \in DOMAIN op
    /\ \E session_id \in TabIds, now \in LaterHours :
          \E n \in {IF session_id \in DOMAIN conversations THEN trace[session_id] + 1 ELSE 1} :
             /\ n <= MaxAdds
             /\ conversations' = add_interaction(conversations, session_id,
                                                 UserInput(n), AiResponse(n), now)
             /\ result' = None
             /\ op' = [name |-> "add_interaction", session_id |-> session_id, now |-> now]
             /\ trace' = [trace EXCEPT ![session_id] = n]
    /\ UNCHANGED outbound

\* session_manager.clear_session(session_id) is called
ClearSession ==
    /\ "now" \in DOMAIN op
    /\ \E session_id \in TabIds, now \in LaterHours :
          \E c \in {clear_session(conversations, session_id)} :
             /\ conversations' = c.sessions
             /\ result' = [ret |-> c.ret]
             /\ op' = [name |-> "clear_session", session_id |-> session_id, now |-> now]
             /\ trace' = [trace EXCEPT ![session_id] = 0]
    /\ UNCHANGED outbound

NextManager == CreateSession \/ AddInteraction \/ ClearSession

Next == NextStore \/ NextEngine \/ NextLLM \/ NextChat \/ NextSessions \/ ConvertCurrency
        \/ ExtractConversions \/ FormatResponse
        \/ GetHistoricalRate \/ ProcessWithLLM \/ NextConcurrent
        \/ ParseConversionQuery \/ NextManager

Spec == Init /\ [][Next]_vars

SpecStore == Init /\ [][NextStore]_vars

SpecEngine == InitEngine /\ [][NextEngine]_vars

SpecLLM == InitLLM /\ [][NextLLM]_vars

SpecChat == Init /\ [][NextChat]_vars

SpecSessions == Init /\ [][NextSessions]_vars

SpecConvert == InitConvert /\ [][ConvertCurrency]_vars

SpecExtract == InitExtract /\ [][ExtractConversions]_vars

SpecFormat == InitFormat /\ [][FormatResponse]_vars

SpecHistorical == InitHistorical /\ [][GetHistoricalRate]_vars

SpecEscalate == InitEscalate /\ [][ProcessWithLLM]_vars

SpecScan == InitScan /\ [][ExtractConversions \/ ParseConversionQuery]_vars

SpecManager == InitManager /\ [][NextManager]_vars

SpecConcurrent == InitConcurrent /\ [][NextConcurrent]_vars

\* every call that was made runs on: the event loop schedules each task that
\* is ready, and each awaited request ends, with an answer or with the
\* timeout of the client
SpecRuns ==
    /\ InitRuns
    /\ [][NextRuns]_vars
    /\ WF_vars(ProcessQuery)
    /\ \A id \in 1..MaxRequests :
          /\ WF_vars(ChatStart(id))
          /\ WF_vars(\E answer \in ResumeAnswers : ChatResume(id, answer))

(***************************************************************************)
(* Properties                                                              *)
(***************************************************************************)
\* the call of the state has run to its end
Done(name) == op.name = name /\ result # Pending

\* a request was sent to the LLM service
LLMCalled == \E i \in DOMAIN outbound : outbound[i].service = "llm"

\* C1: for every query and every behaviour of the rate service and the LLM
\* service, process_query returns a text string: it never raises and never
\* returns a non-string value such as None.
C1_ProcessQueryReturnsText ==
    Done("process_query") => ~IsRaise(result) /\ IsText(result.ret)

\* C1, the state that refutes it: the LLM answered with a message whose
\* content is null and which has no tool calls, and process_query returned None
C1_ReturnedNone ==
    /\ Done("process_query")
    /\ op.llm_answer = [kind |-> "json",
                        message |-> <<[content |-> <<None>>, tool_calls |-> <<>>]>>]
    /\ result = Returns(None)

\* the requests of a batch-engine call, as <<amount, from, to>> tuples
CallRequests ==
    IF op.name = "batch_convert_currencies"
    THEN op.conversions
    ELSE [i \in DOMAIN op.conversion_dicts |->
            <<op.conversion_dicts[i].amount, op.conversion_dicts[i].from_currency,
              op.conversion_dicts[i].to_currency>>]

\* request i of the call is one that fails: an unsupported code, or a rate
\* service that gives no rate for it
RequestFails(i) ==
    \/ CallRequests[i][2] \notin supported_currencies
    \/ CallRequests[i][3] \notin supported_currencies
    \/ CallRequests[i][1] = 0
    \/ op.answers[i].kind # "json"
    \/ op.answers[i].rate = <<>>

\* a call of one of the two batch engines has run to its end
EngineDone ==
    op.name \in {"batch_convert_currencies", "convert_multiple_currencies"}
    /\ result # Pending

\* C2: batch isolation.  When request k of a batch of N fails and all others
\* succeed, the engine still attempts every request k+1..N and returns N
\* results, of which result k has an "error" field and every other is a
\* success.
C2_BatchIsolation ==
    EngineDone =>
        \A k \in DOMAIN CallRequests :
            (\A i \in DOMAIN CallRequests : RequestFails(i) <=> i = k) =>
                /\ ~IsRaise(result)
                /\ Len(result.ret) = Len(CallRequests)
                /\ \A i \in DOMAIN CallRequests : HasError(result.ret[i]) <=> i = k
                /\ \A j \in DOMAIN CallRequests :
                      j > k => LatestRequest(CallRequests[j][1], CallRequests[j][2],
                                             CallRequests[j][3]) \in Range(outbound)

\* C2, the state that refutes it: convert_multiple_currencies was given two
\* requests of which the first has an unsupported target code, and raised
\* without sending the second
C2_SecondNeverAttempted ==
    /\ Done("convert_multiple_currencies")
    /\ CallRequests = << <<50000, USD, XYZ>>, <<100000, USD, EUR>> >>
    /\ op.answers[2] = GoodAnswer
    /\ IsRaise(result)
    /\ outbound = <<>>

\* result r carries the amount and the codes of request c
SameRequest(r, c) ==
    /\ {"amount", "from_currency", "to_currency"} \subseteq DOMAIN r
    /\ r.amount = c[1]
    /\ r.from_currency = c[2]
    /\ r.to_currency = c[3]

\* C3: for every input sequence of requests, the empty one included, the
\* batch engine returns a sequence of the same length whose i-th result is
\* the outcome of request i: its amount, source code and target code are
\* those of request i.
C3_SameLengthSameOrder ==
    EngineDone =>
        /\ ~IsRaise(result)
        /\ Len(result.ret) = Len(CallRequests)
        /\ \A i \in DOMAIN CallRequests : SameRequest(result.ret[i], CallRequests[i])

\* C3, the state that refutes it: convert_multiple_currencies was given the
\* empty sequence and raised instead of returning the empty sequence
C3_EmptyBatchRaised ==
    /\ Done("convert_multiple_currencies")
    /\ op.conversion_dicts = <<>>
    /\ IsRaise(result)

\* conversion c of a query fails under the rate service's answer a
RequestFailsIn(c, a) ==
    \/ c.from_currency \notin supported_currencies
    \/ c.to_currency \notin supported_currencies
    \/ c.amount = 0
    \/ a.kind # "json"
    \/ a.rate = <<>>

\* the pieces a, b occur next to each other, a space between them, in text t
Adjacent(t, a, b) ==
    \E i \in DOMAIN t :
        i + 2 <= Len(t) /\ t[i] = a /\ t[i + 1] = Lit(" ") /\ t[i + 2] = b

\* the text shows conversion c of the query done with the rate service's
\* answer a: the amount with its source code, the converted amount with its
\* target code
ShowsConversion(t, c, a) ==
    /\ Adjacent(t, Float(c.amount), Str(c.from_currency))
    /\ Adjacent(t, Float(Round2(a.rate[1])), Str(c.to_currency))

\* C4: routing in process_query.  The LLM service is called if and only if
\* the extractor finds no conversion.  With one conversion or more the batch
\* engine is invoked exactly once, the LLM service is never called, and the
\* returned text contains the requested amount with its source code and the
\* converted amount with its target code.
C4_Routing ==
    Done("process_query") =>
        /\ LLMCalled <=> (_extract_conversions(op.query) = <<>>)
        /\ _extract_conversions(op.query) # <<>> =>
              /\ Cardinality({i \in DOMAIN trace :
                                trace[i] = "convert_multiple_currencies"}) = 1
              /\ ~LLMCalled
              /\ ~IsRaise(result)
              /\ IsText(result.ret)
              /\ \A i \in DOMAIN _extract_conversions(op.query) :
                    ~RequestFailsIn(_extract_conversions(op.query)[i], op.answers[i]) =>
                        ShowsConversion(result.ret.text,
                                        _extract_conversions(op.query)[i], op.answers[i])

\* C4, the state that refutes it: "Convert 100 USD to EUR" with a rate
\* service that answers well was routed to the batch engine, and the text
\* returned is the apology for the engine's failure
C4_DirectRouteApologised ==
    /\ Done("process_query")
    /\ op.query = QueryConvert
    /\ op.answers[1] = GoodAnswer
    /\ trace = <<"_extract_conversions", "convert_multiple_currencies">>
    /\ ~LLMCalled
    /\ result = QueryApology(Raises("Exception",
                    <<Lit("Multiple currency conversion failed: "),
                      Lit("name 'asyncio' is not defined")>>))

\* the LLM call itself fails: no response, a non-2xx status, or a body that
\* cannot be parsed into choices[0].message
LLMCallFails(answer) ==
    \/ answer.kind \in {"transport", "status", "notjson"}
    \/ answer.kind = "json" /\ answer.message = <<>>

\* C5: when the query has no conversion pattern and the LLM call itself
\* fails, process_query returns exactly one of the two fixed apologies (the
\* connectivity one for a non-2xx status, the processing one otherwise), and
\* no exception propagates.
C5_LLMFailureApology ==
    (/\ Done("process_query")
     /\ _extract_conversions(op.query) = <<>>
     /\ LLMCallFails(op.llm_answer)) =>
        /\ result \in {Returns(Text(ConnectivityApology)), Returns(Text(ProcessingApology))}
        /\ (result = Returns(Text(ConnectivityApology))) <=> (op.llm_answer.kind = "status")

\* C5, its case: the weather question, an LLM service answering 429, and the
\* connectivity apology returned after the one POST
C5_StatusFailureAnswered ==
    /\ Done("process_query")
    /\ op.query = QueryWeather
    /\ op.llm_answer.kind = "status"
    /\ LLMCalled
    /\ result = Returns(Text(ConnectivityApology))

\* a chat request the request model accepts has been handled
ChatDone ==
    /\ op.name = "chat_completion"
    /\ ChatRequest(op.request, op.generated).valid

\* the chat response is the parse error of parse_conversion_query
AnsweredWithFormatError ==
    /\ result.status = 200
    /\ Len(result.body.response.text) >= 2
    /\ result.body.response.text[1] = Lit("(x) ")
    /\ result.body.response.text[2] = Lit("Invalid conversion format: '")

\* C6: a chat-completion request whose message contains no conversion
\* pattern is escalated to the LLM path and is not answered with a
\* parse/format error.
C6_NoPatternEscalates ==
    (ChatDone /\ _extract_conversions(Strip(op.request.message)) = <<>>) =>
        /\ LLMCalled
        /\ ~AnsweredWithFormatError

\* C6, the state that refutes it: "What's the weather today?" was answered
\* with the format error and nothing was sent to the LLM service
C6_WeatherGotFormatError ==
    /\ ChatDone
    /\ op.request.message = QueryWeather
    /\ op.request.session_id = <<SessionId("s1")>>
    /\ outbound = <<>>
    /\ AnsweredWithFormatError

\* the session id a chat response is to carry: the request's, or the
\* generated one when the request supplies none
ExpectedSessionId ==
    IF op.request.session_id \in {<<>>, <<None>>}
    THEN op.generated
    ELSE op.request.session_id[1]

\* C7: every valid chat-completion request (session_id given, omitted or
\* null), whatever parsing and the rate service do, completes successfully
\* with {response, session_id}: response a text, session_id the request's
\* session id or a freshly generated one; it never fails with an internal
\* server error.
C7_ChatCompletes ==
    ChatDone =>
        /\ result.status = 200
        /\ IsText(result.body.response)
        /\ result.body.session_id = ExpectedSessionId

\* C7, the state that refutes it: a request with "session_id": null ended in
\* the internal server error
C7_NullSessionFailed ==
    /\ ChatDone
    /\ op.request = [message |-> QueryConvert, session_id |-> <<None>>]
    /\ result.status = 500

\* C8: retrieving the conversation of a session id never seen before returns
\* an empty message list and does not fail, in any reachable state of the
\* store.
C8_UnseenRetrievalEmpty ==
    (op.name = "http_get_conversation" /\ ~op.seen) =>
        /\ result.status = 200
        /\ result.body.messages = <<>>

\* C8, the state that refutes it: the retrieval of an unseen session ended
\* in the internal server error while another session holds messages
C8_UnseenRetrievalFailed ==
    /\ op.name = "http_get_conversation"
    /\ op.session_id = SessionId("s2")
    /\ ~op.seen
    /\ Stored(conversations, SessionId("s1")) # <<>>
    /\ result.status = 500

\* C9: clearing session s succeeds for any s, seen or unseen, and right
\* afterwards the history of s is the empty list, from which later appends
\* start afresh.
C9_ClearSucceeds ==
    op.name = "http_clear_conversation" =>
        /\ result.status = 200
        /\ Stored(conversations, op.session_id) = <<>>

\* C9, the state that refutes it: the clear of a session holding messages
\* ended in the internal server error and the messages are still stored
C9_ClearFailed ==
    /\ op.name = "http_clear_conversation"
    /\ op.seen
    /\ result.status = 500
    /\ Stored(conversations, op.session_id) # <<>>

\* the step is a clear of session s
ClearsSession(s) ==
    /\ op'.name \in {"clear_conversation", "http_clear_conversation"}
    /\ op'.session_id = s

\* the step is add_message(s, m) for some m
AppendsTo(s) == op'.name = "add_message" /\ op'.session_id = s

\* C10: a session's history is append-only between clears.  Every step that
\* is not a clear of s leaves the stored list of s as it was, except that
\* add_message(s, m) puts m at its end; so the list is the appended messages
\* in the order of appending, nothing earlier is removed, replaced or
\* reordered, and get_conversation does not change the list's contents.
C10_AppendOnly ==
    [][\A s \in SessionIds :
          ~ClearsSession(s) =>
              Stored(conversations', s) =
                  IF AppendsTo(s)
                  THEN Append(Stored(conversations, s), op'.message)
                  ELSE Stored(conversations, s)]_vars

\* C10, its case: get_conversation returning a history of two different
\* messages in the order they were appended
C10_ReadAfterTwoAppends ==
    /\ op.name = "get_conversation"
    /\ result = Returns(<<[role |-> "user", content |-> <<Lit("hello")>>],
                          [role |-> "assistant", content |-> <<Lit("hi")>>]>>)
    /\ conversations[op.session_id] = result.ret

\* the session an operation is for: <<id>>, or <<>> when it is for none
OpSession(o) ==
    IF o.name = "chat_completion"
    THEN IF ChatRequest(o.request, o.generated).valid
         THEN <<ChatRequest(o.request, o.generated).session_id>>
         ELSE <<>>
    ELSE IF "session_id" \in DOMAIN o THEN <<o.session_id>> ELSE <<>>

\* C11: session isolation.  For any two distinct session ids A and B, an
\* operation on A (add_message, get_conversation, clear_conversation or a
\* chat-completion request for A), in any interleaving of the operations,
\* leaves the message list of B unchanged.
C11_SessionIsolation ==
    [][\A b \in SessionIds \cup GeneratedIds :
          OpSession(op') # <<b>> =>
              Stored(conversations', b) = Stored(conversations, b)]_vars

\* C11, its case: a chat request for session s1 has been answered and stored
\* while session s2 holds two messages
C11_ChatBesideOtherSession ==
    /\ op.name = "chat_completion"
    /\ OpSession(op) = <<SessionId("s1")>>
    /\ result.status = 200
    /\ Len(Stored(conversations, SessionId("s1"))) = 2
    /\ Len(Stored(conversations, SessionId("s2"))) = 2

\* both codes of the convert_currency call are in the allow-list
CodesSupported ==
    /\ op.from_currency \in supported_currencies
    /\ op.to_currency \in supported_currencies

\* C12: identity conversion.  For every supported currency C and positive
\* amount a, convert_currency(a, C, C) yields a success with
\* converted_amount = a and exchange_rate = 1.0, whatever the rate service
\* does (unreachable, or answering anything).
C12_IdentityConversion ==
    (/\ Done("convert_currency")
     /\ op.from_currency = op.to_currency
     /\ CodesSupported
     /\ op.amount > 0) =>
        /\ ~IsRaise(result)
        /\ result.ret.converted_amount = op.amount
        /\ result.ret.exchange_rate = 1000000

\* C12, the state that refutes it: convert_currency(100, USD, USD) sent its
\* request to an unreachable rate service and raised the generic error
C12_IdentityNeededService ==
    /\ Done("convert_currency")
    /\ op.amount = 100000
    /\ op.from_currency = USD
    /\ op.to_currency = USD
    /\ op.answer.kind = "transport"
    /\ outbound = <<LatestRequest(100000, USD, USD)>>
    /\ result = GenericConversionError(USD, USD)

\* C13: convert_currency called with an amount that is not greater than 0
\* produces a failure carrying a validation error, and no request is sent to
\* the rate service.
C13_NonPositiveAmountRejected ==
    (Done("convert_currency") /\ CodesSupported /\ op.amount <= 0) =>
        /\ IsValueError(result)
        /\ outbound = <<>>

\* C13, the state that refutes it: convert_currency(-5, USD, EUR) sent its
\* request and returned a success
C13_NegativeAmountConverted ==
    /\ Done("convert_currency")
    /\ op.amount = -5000
    /\ op.from_currency = USD
    /\ op.to_currency = EUR
    /\ outbound = <<LatestRequest(-5000, USD, EUR)>>
    /\ ~IsRaise(result)

\* the codes of the call that are not in the allow-list
UnsupportedCodes == {op.from_currency, op.to_currency} \ supported_currencies

\* C14: convert_currency called with a source or target code that is not in
\* the allow-list fails with a message that names an unsupported code of the
\* call, and no request is sent to the rate service; so too when both codes
\* are unsupported.
C14_UnsupportedCodeFailsFast ==
    (Done("convert_currency") /\ UnsupportedCodes # {}) =>
        /\ IsRaise(result)
        /\ \E c \in UnsupportedCodes : Str(c) \in Range(result.msg)
        /\ outbound = <<>>

\* C14, its case: both codes of the call are unsupported, the call raised
\* naming the source code, and nothing was sent
C14_BothCodesUnsupported ==
    /\ Done("convert_currency")
    /\ op.from_currency = XYZ
    /\ op.to_currency = QQQ
    /\ op.answer = GoodAnswer
    /\ result = Raises("ValueError", <<Lit("Unsupported source currency: "), Str(XYZ)>>)
    /\ outbound = <<>>

\* the rate service's answer is a failure of the request: no response, a
\* non-2xx status, a body that is not JSON, or a body without the target rate
ServiceFails(answer) ==
    \/ answer.kind \in {"transport", "status", "notjson"}
    \/ answer.kind = "json" /\ answer.rate = <<>>

\* C15: when both codes are supported and the rate service answers with a
\* non-2xx status, a malformed body, a body lacking the target rate, or a
\* transport error, convert_currency fails with exactly the message "Error
\* converting <source> to <target>", whatever the underlying error was.
C15_GenericFailureMessage ==
    (Done("convert_currency") /\ CodesSupported /\ ServiceFails(op.answer)) =>
        result = GenericConversionError(op.from_currency, op.to_currency)

\* C15, the state that refutes it: the rate service answered 2xx with a body
\* that is not JSON, and the call raised the decoder's own error message
C15_DecoderErrorLeaked ==
    /\ Done("convert_currency")
    /\ op.from_currency = USD
    /\ op.to_currency = EUR
    /\ op.answer.kind = "notjson"
    /\ result = Raises("JSONDecodeError", <<Lit(op.answer.detail)>>)

\* the rate service answered 2xx with a rate for the target code of a call
\* whose codes are supported
ServiceGaveRate ==
    /\ Done("convert_currency")
    /\ CodesSupported
    /\ op.answer.kind = "json"
    /\ op.answer.rate # <<>>

\* x is y rounded to 2 decimals, both in thousandths
IsRoundedTo2(x, y) == x % 10 = 0 /\ Abs(x - y) <= 5

\* the result is the success of the call for the service's rate and date
SuccessOfCall ==
    /\ ~IsRaise(result)
    /\ result.ret.amount = op.amount
    /\ result.ret.from_currency = op.from_currency
    /\ result.ret.to_currency = op.to_currency
    /\ IsRoundedTo2(result.ret.converted_amount, op.answer.rate[1])
    /\ result.ret.date = IF op.answer.date = <<>> THEN "today" ELSE op.answer.date[1]

\* C16: when the rate service answers successfully with a rate value for the
\* target code, convert_currency returns a success whose amount and codes are
\* the arguments of the call, whose converted_amount is the service's value
\* rounded to 2 decimals, and whose date is the service's date, or the
\* current date when the service supplied none.
C16_SuccessFields ==
    ServiceGaveRate => SuccessOfCall

\* C16, the state that refutes it: convert_currency(0, USD, EUR) was not
\* rejected, the service answered its request with a rate, and the call
\* raised the generic error on dividing the rate by the amount
C16_ZeroAmountFailed ==
    /\ ServiceGaveRate
    /\ op.amount = 0
    /\ op.from_currency = USD
    /\ op.to_currency = EUR
    /\ op.answer = GoodAnswer
    /\ outbound = <<LatestRequest(0, USD, EUR)>>
    /\ result = GenericConversionError(USD, EUR)

\* the tool calls of the LLM answer of a process_query call, <<>> if none
ToolCallsOf(o) ==
    IF /\ o.llm_answer.kind = "json"
       /\ o.llm_answer.message # <<>>
       /\ o.llm_answer.message[1].tool_calls # <<>>
    THEN o.llm_answer.message[1].tool_calls[1]
    ELSE <<>>

\* process_query is done with a query that has no conversion pattern and an
\* LLM answer that carries tool calls
ToolCallsHandled ==
    /\ Done("process_query")
    /\ _extract_conversions(op.query) = <<>>
    /\ ToolCallsOf(op) # <<>>

\* the functions declared to the LLM
DeclaredFunctions ==
    {"convert_currency", "get_supported_currencies", "get_historical_rate"}

\* the tool call names a function and carries an arguments value
HasNameAndArguments(tool_call) ==
    /\ tool_call.function # <<>>
    /\ tool_call.function[1].name # <<>>
    /\ tool_call.function[1].arguments # <<>>

\* the arguments of the tool call are a JSON object that has the keys the
\* named function requires
ArgumentsComplete(tool_call) ==
    /\ tool_call.function[1].arguments[1].valid
    /\ (tool_call.function[1].name[1] = "convert_currency" =>
            /\ tool_call.function[1].arguments[1].amount # <<>>
            /\ tool_call.function[1].arguments[1].from_currency # <<>>
            /\ tool_call.function[1].arguments[1].to_currency # <<>>)
    /\ (tool_call.function[1].name[1] = "get_historical_rate" =>
            /\ tool_call.function[1].arguments[1].date # <<>>
            /\ tool_call.function[1].arguments[1].from_currency # <<>>
            /\ tool_call.function[1].arguments[1].to_currency # <<>>)

\* the tool call names a declared function with complete arguments
WellFormed(tool_call) ==
    /\ HasNameAndArguments(tool_call)
    /\ tool_call.function[1].name[1] \in DeclaredFunctions
    /\ ArgumentsComplete(tool_call)

\* the tool call names an unrecognized function, or its arguments are
\* malformed (invalid JSON, or a required key missing)
Faulty(tool_call) ==
    /\ HasNameAndArguments(tool_call)
    /\ \/ tool_call.function[1].name[1] \notin DeclaredFunctions
       \/ ~ArgumentsComplete(tool_call)

\* the requests sent to the rate service, in order
RateRequests == SelectSeq(outbound, LAMBDA r : r.service = "rate")

\* the function whose dispatch sends the rate request r
RequestKind(r) ==
    IF "amount" \in DOMAIN r THEN "convert_currency"
    ELSE IF "from" \in DOMAIN r THEN "get_historical_rate"
    ELSE "get_supported_currencies"

\* the pieces of the returned text
TextPieces == IF IsText(result.ret) THEN result.ret.text ELSE <<>>

\* the number of pieces of seq that are in S
Count(seq, S) == Cardinality({i \in DOMAIN seq : seq[i] \in S})

\* the piece that opens the message of an error entry
ErrorHead == Lit("(x) Error: ")

\* the pieces that open the report of one tool call: a numbered entry, the
\* list of currencies, a historical rate
ReportHeads ==
    {Lit("**Conversion "), Lit("Here are the supported currencies:\n\n"),
     Lit("**Historical Exchange Rate**\n")}

\* C17: tool-call isolation.  For every list of tool calls of the LLM, each
\* call that names an unrecognized function or has malformed arguments
\* contributes one error entry to the returned text, and every other call of
\* the list is still dispatched (its request is sent to the rate service).
C17_ToolCallIsolation ==
    (/\ ToolCallsHandled
     /\ \A i \in DOMAIN ToolCallsOf(op) :
            Faulty(ToolCallsOf(op)[i]) \/ WellFormed(ToolCallsOf(op)[i])) =>
        /\ Count(TextPieces, {ErrorHead}) >=
               Count(ToolCallsOf(op), {c \in ToolCallPool : Faulty(c)})
        /\ Len(RateRequests) =
               Count(ToolCallsOf(op), {c \in ToolCallPool : WellFormed(c)})

\* C17, the state that refutes it: the LLM asked for get_weather and then a
\* good convert_currency; the returned text is the one entry of the
\* conversion, with no error entry for get_weather
C17_UnknownFunctionVanished ==
    /\ ToolCallsHandled
    /\ Len(ToolCallsOf(op)) = 2
    /\ ToolCallsOf(op)[1] = ToolCall("get_weather", Arguments(<<>>, <<>>, <<>>, <<>>))
    /\ WellFormed(ToolCallsOf(op)[2])
    /\ ToolCallsOf(op)[2].function[1].name[1] = "convert_currency"
    /\ op.answers[2] = GoodAnswer
    /\ Count(TextPieces, {ErrorHead}) = 0
    /\ Count(TextPieces, ReportHeads) = 1
    /\ Len(RateRequests) = 1

\* C18: when the LLM response carries n >= 1 tool calls, each a declared
\* function with complete arguments, the n calls are dispatched in the order
\* listed and the returned text reports the outcome of each of the n: a
\* get_supported_currencies or get_historical_rate call neither discards the
\* results of earlier calls nor prevents later calls from being dispatched.
C18_AllToolCallsAggregated ==
    (/\ ToolCallsHandled
     /\ \A i \in DOMAIN ToolCallsOf(op) : WellFormed(ToolCallsOf(op)[i])) =>
        /\ Len(RateRequests) = Len(ToolCallsOf(op))
        /\ \A i \in DOMAIN ToolCallsOf(op) :
               RequestKind(RateRequests[i]) = ToolCallsOf(op)[i].function[1].name[1]
        /\ Count(TextPieces, ReportHeads) = Len(ToolCallsOf(op))

\* C18, the state that refutes it: the LLM asked for a good convert_currency
\* and then get_supported_currencies, both answered well by the rate
\* service; the returned text is the list of currencies alone
C18_EarlierResultDiscarded ==
    /\ ToolCallsHandled
    /\ Len(ToolCallsOf(op)) = 2
    /\ ToolCallsOf(op)[1] = ToolCall("convert_currency",
                                     Arguments(<<100000>>, <<USD>>, <<EUR>>, <<>>))
    /\ ToolCallsOf(op)[2] = ToolCall("get_supported_currencies",
                                     Arguments(<<>>, <<>>, <<>>, <<>>))
    /\ op.answers = <<GoodAnswer, GoodAnswer>>
    /\ Len(RateRequests) = 2
    /\ result = Returns(Text(_format_supported_currencies(GoodAnswer.currencies[1])))

\* the positions that zero or more white-space characters lead to from i
AfterSpaces(s, i) ==
    {j \in i..(Len(s) + 1) : \A k \in i..(j - 1) : IsSpace(s[k])}

\* "to" or "in" stands at position i of s, in any letter case
KeywordAt(s, i) == LitAt(s, i, <<"t", "o">>) \/ LitAt(s, i, <<"i", "n">>)

\* the text holds a currency-conversion pattern somewhere: a digit, then
\* three letters, then "to" or "in", then three letters, with optional
\* white space between them
HasPattern(s) ==
    \E i \in DOMAIN s :
        /\ IsDigit(s[i])
        /\ \E c1 \in AfterSpaces(s, i + 1) :
              /\ ThreeAlphaAt(s, c1)
              /\ \E k \in AfterSpaces(s, c1 + 3) :
                    /\ KeywordAt(s, k)
                    /\ \E c2 \in AfterSpaces(s, k + 2) : ThreeAlphaAt(s, c2)

\* C19: for every text with zero currency-conversion pattern matches,
\* _extract_conversions returns the empty sequence and raises nothing; it is
\* pure: a repeated call on the same text returns what the call before it
\* returned, and no call changes the store or sends a request.
C19_NoMatchEmptyAndPure ==
    [][op.name = "_extract_conversions" =>
          /\ ~IsRaise(result')
          /\ (~HasPattern(op.query) => result' = Returns(<<>>))
          /\ (result # Pending => result' = result)
          /\ conversations' = conversations
          /\ outbound' = outbound
          /\ op' = op]_vars

\* C19, its case: "What is the weather?" was handed to the extractor twice
\* and the empty sequence came back
C19_WeatherExtractedTwice ==
    /\ op.name = "_extract_conversions"
    /\ ~HasPattern(op.query)
    /\ Len(op.query) = 20
    /\ trace = <<"_extract_conversions", "_extract_conversions">>
    /\ result = Returns(<<>>)
    /\ outbound = <<>>

\* the requests the phrases ps ask for, in order
RequestsOf(ps) == [i \in DOMAIN ps |-> ps[i].request]

\* C20: for every N >= 1 and every text made of N well-formed phrases
\* "<amount> <CODE1> to <CODE2>" joined by "and", optionally prefixed by
\* "Convert", in any letter case, _extract_conversions returns exactly N
\* requests in left-to-right order, the i-th with the i-th phrase's amount
\* and its two codes upper-cased, also when two phrases are identical.
C20_ConjoinedPhrasesInOrder ==
    Done("_extract_conversions") =>
        \A prefix \in Prefixes :
            \A ps \in SeqsUpTo(Phrases, MaxPhrases) \ {<<>>} :
                op.query = prefix \o Conjoined(ps) =>
                    result = Returns(RequestsOf(ps))

\* C20, its case: a text that starts with "CONVERT " and holds the same
\* phrase twice gave two equal requests
C20_SamePhraseTwice ==
    /\ Done("_extract_conversions")
    /\ \E p \in Phrases :
          /\ p.request.amount = 50500
          /\ op.query = <<"C", "O", "N", "V", "E", "R", "T", " ">> \o Conjoined(<<p, p>>)
          /\ result = Returns(<<p.request, p.request>>)

\* the positions of the section labels in a text
LabelPositions(text) ==
    {p \in DOMAIN text : text[p] = Lit("**Conversion ")}

\* the position of the i-th label of a text
NthLabel(text, i) ==
    CHOOSE p \in LabelPositions(text) :
        Cardinality({q \in LabelPositions(text) : q < p}) = i - 1

\* the i-th section of a text with n sections: from its label up to the next
SectionOf(text, i, n) ==
    SubSeq(text, NthLabel(text, i),
           IF i < n THEN NthLabel(text, i + 1) - 1 ELSE Len(text))

\* the pieces that open the three lines of a success
MoneyHead == Lit("(money) ")
ChartHead == Lit("(chart) Exchange Rate: 1 ")
CalendarHead == Lit("(calendar) Rate Date: ")

\* sec is labelled "Conversion i"
Labelled(sec, i) == sec[2] = Integer(i) /\ sec[3] = Lit(":**\n")

\* sec is the section of a failure: an error line with the message, and
\* none of the lines of a success
FailureSection(sec, item) ==
    /\ Count(sec, {ErrorHead}) = 1
    /\ Count(sec, {MoneyHead, ChartHead, CalendarHead}) = 0
    /\ \A k \in DOMAIN item.error : item.error[k] \in Range(sec)

\* sec is the section of a success: the amount line, then the unit exchange
\* rate line, then the rate date line, and no error line
SuccessSection(sec, item) ==
    /\ Count(sec, {ErrorHead}) = 0
    /\ \E m, c, d \in DOMAIN sec :
          /\ m < c /\ c < d
          /\ sec[m] = MoneyHead /\ sec[c] = ChartHead /\ sec[d] = CalendarHead
          /\ SubSeq(sec, m + 1, m + 3) =
                 <<Float(item.amount), Lit(" "), Str(item.from_currency)>>
          /\ \E k \in (m + 4)..(c - 2) :
                 SubSeq(sec, k, k + 2) =
                     <<Float(item.converted_amount), Lit(" "), Str(item.to_currency)>>
          /\ \E k \in (c + 1)..(d - 1) : sec[k] = Rate(item.exchange_rate)
          /\ sec[d + 1] = Lit(item.date)

\* C21: the formatter maps the empty result list to the fixed empty-case
\* sentence, and a list of n >= 1 results to exactly n sections labelled
\* "Conversion 1" .. "Conversion n" in input order; the section of a failure
\* holds only an error line, the section of a success holds the amount line,
\* the unit exchange rate line and the rate date line, in this order.
C21_FormatterSections ==
    Done("_format_multiple_conversions_response") =>
        /\ ~IsRaise(result)
        /\ (op.results = <<>> =>
               result.ret.text =
                   <<Lit("I couldn't process any conversions from your request.")>>)
        /\ (op.results # <<>> =>
               /\ Cardinality(LabelPositions(result.ret.text)) = Len(op.results)
               /\ \A i \in DOMAIN op.results :
                     /\ Labelled(SectionOf(result.ret.text, i, Len(op.results)), i)
                     /\ IF HasError(op.results[i])
                        THEN FailureSection(SectionOf(result.ret.text, i, Len(op.results)),
                                            op.results[i])
                        ELSE SuccessSection(SectionOf(result.ret.text, i, Len(op.results)),
                                            op.results[i]))

\* C21, its case: a success followed by a failure gave two labelled sections
C21_SuccessThenFailure ==
    /\ Done("_format_multiple_conversions_response")
    /\ Len(op.results) = 2
    /\ ~HasError(op.results[1])
    /\ HasError(op.results[2])
    /\ Cardinality(LabelPositions(result.ret.text)) = 2
    /\ Count(result.ret.text, {ErrorHead}) = 1
    /\ Count(result.ret.text, {MoneyHead}) = 1

\* the text is empty or holds white space only
Blank(text) == \A k \in DOMAIN text : IsSpace(text[k])

\* C22: a chat-completion request whose message is empty or only white space
\* is rejected as a validation error before any processing: no conversion is
\* attempted, no request is sent to the rate service, and no message is
\* appended to the history of any session.
C22_BlankMessageRejected ==
    [][(op'.name = "chat_completion" /\ Blank(op'.request.message)) =>
          /\ result'.status = 422
          /\ trace' = <<>>
          /\ outbound' = <<>>
          /\ conversations' = conversations]_vars

\* C22, its case: a message of white space was rejected while the session it
\* names held the two messages of an earlier request
C22_WhitespaceAfterChat ==
    /\ op.name = "chat_completion"
    /\ op.request.message = QueryBlank
    /\ op.request.session_id = <<SessionId("s1")>>
    /\ result.status = 422
    /\ Len(Stored(conversations, SessionId("s1"))) = 2

\* the text has the form YYYY-MM-DD: digits and two dashes, ten characters
FormYYYYMMDD(s) ==
    /\ Len(s) = 10
    /\ \A k \in {1, 2, 3, 4, 6, 7, 9, 10} : IsDigit(s[k])
    /\ s[5] = "-" /\ s[8] = "-"

\* <<year, month, day>> of a text of the form YYYY-MM-DD
DateOf(s) ==
    <<DigitsToInt(SubSeq(s, 1, 4)), DigitsToInt(SubSeq(s, 6, 7)),
      DigitsToInt(SubSeq(s, 9, 10))>>

\* the earliest date the rate service has data for: 1999-01-04
min_date == <<1999, 1, 4>>

\* the date is one a historical lookup must refuse: not of the form
\* YYYY-MM-DD, in the future, or before the floor
DateRefused(s) ==
    \/ ~FormYYYYMMDD(s)
    \/ DateAfter(DateOf(s), Now)
    \/ DateAfter(min_date, DateOf(s))

\* C23: get_historical_rate fails without sending any request to the rate
\* service when the date is not of the form YYYY-MM-DD, when it lies in the
\* future, or when it lies before the floor 1999-01-04.
C23_BadDateFailsBeforeRequest ==
    (Done("get_historical_rate") /\ DateRefused(op.date_str)) =>
        /\ IsRaise(result)
        /\ outbound = <<>>

\* C23, the state that refutes it: get_historical_rate("1990-01-01", USD, EUR)
\* sent its request and returned the rate the service answered
C23_DateBeforeFloorLookedUp ==
    /\ Done("get_historical_rate")
    /\ FormYYYYMMDD(op.date_str)
    /\ DateOf(op.date_str) = <<1990, 1, 1>>
    /\ op.to_currency = EUR
    /\ op.answer = GoodAnswer
    /\ Len(outbound) = 1
    /\ ~IsRaise(result)

\* the smaller of two numbers
Min(a, b) == IF a <= b THEN a ELSE b

\* the message list of the request sent to the LLM service
SentMessages == outbound[1].messages

\* C24: for every history of length h passed to _process_with_llm, the
\* message list sent to the LLM is the fixed system instruction, then the
\* last min(h, 10) history messages in their original order, then the user
\* query as the final message; no older history message is included.
C24_LastTenHistoryMessages ==
    Done("_process_with_llm") =>
        /\ Len(outbound) = 1
        /\ outbound[1].service = "llm"
        /\ Len(SentMessages) = Min(Len(op.conversation_history), 10) + 2
        /\ SentMessages[1] = [role |-> "system", content |-> <<Lit("SYSTEM_PROMPT")>>]
        /\ SentMessages[Len(SentMessages)] =
               [role |-> "user", content |-> <<Str(op.query)>>]
        /\ \A k \in 1..Min(Len(op.conversation_history), 10) :
               SentMessages[1 + k] =
                   op.conversation_history[
                       Len(op.conversation_history)
                       - Min(Len(op.conversation_history), 10) + k]

\* C24, its case: a history of twelve messages, of which the third to the
\* twelfth were sent between the system instruction and the query
C24_TwelveMessageHistory ==
    /\ Done("_process_with_llm")
    /\ Len(op.conversation_history) = 12
    /\ Len(SentMessages) = 12
    /\ SentMessages[2] = op.conversation_history[3]
    /\ SentMessages[11] = op.conversation_history[12]

\* another raw error text an upstream failure may carry
OtherDetail == "Connection reset by peer"

\* the same answer of a service with another raw error text, if it has one
Redetailed(answer) ==
    IF "detail" \in DOMAIN answer
    THEN [answer EXCEPT !.detail = OtherDetail]
    ELSE answer

\* what process_query returns in the run that differs from the run of op
\* only in the raw error texts of the failing upstream calls
ReturnedWithOtherDetails(o) ==
    process_query(o.query, o.conversation_history, Redetailed(o.llm_answer),
                  [i \in DOMAIN o.answers |-> Redetailed(o.answers[i])]).res

\* C25: the text returned to the user does not depend on the raw detail of
\* an upstream failure: two runs of process_query with the same query that
\* differ only in the raw error text of a failing rate-service or LLM call
\* return the same text.
C25_RawDetailNotReturned ==
    Done("process_query") => result = ReturnedWithOtherDetails(op)

\* C25, the state that refutes it: the LLM asked for the supported
\* currencies, the rate service was unreachable, and the returned text
\* carries the raw text of the connection error
C25_ConnectionErrorShown ==
    /\ ToolCallsHandled
    /\ Len(ToolCallsOf(op)) = 1
    /\ ToolCallsOf(op)[1] = ToolCall("get_supported_currencies",
                                     Arguments(<<>>, <<>>, <<>>, <<>>))
    /\ op.answers[1].kind = "transport"
    /\ Lit(op.answers[1].detail) \in Range(TextPieces)
    /\ result # ReturnedWithOtherDetails(op)

\* C26: concurrent batch conversion.  Whatever subset of the N lookups of
\* convert_multiple_currencies fails, the engine joins all N (every lookup
\* with supported codes has been sent), the failure of one does not abort
\* the join, and result slot i holds the outcome of request i.
C26_JoinKeepsSlots ==
    Done("convert_multiple_currencies") =>
        /\ ~IsRaise(result)
        /\ Len(result.ret) = Len(CallRequests)
        /\ \A i \in DOMAIN CallRequests :
              /\ HasError(result.ret[i]) <=> RequestFails(i)
              /\ (~HasError(result.ret[i]) => SameRequest(result.ret[i], CallRequests[i]))
              /\ ({CallRequests[i][2], CallRequests[i][3]} \subseteq supported_currencies =>
                     LatestRequest(CallRequests[i][1], CallRequests[i][2],
                                   CallRequests[i][3]) \in Range(outbound))

\* C26, the state that refutes it: two lookups that the rate service would
\* both answer well were handed over, none was started, and the call raised
\* on the name asyncio
C26_NoLookupStarted ==
    /\ Done("convert_multiple_currencies")
    /\ CallRequests = << <<100000, USD, EUR>>, <<200000, GBP, JPY>> >>
    /\ op.answers = <<GoodAnswer, GoodAnswer>>
    /\ IsRaise(result)
    /\ Lit("name 'asyncio' is not defined") \in Range(result.msg)
    /\ outbound = <<>>

\* the run has reached its end: process_query has returned, or every chat
\* request has its response
RunDone ==
    IF op.name = "process_query"
    THEN result # Pending
    ELSE \A id \in DOMAIN op.tasks : op.tasks[id].pc = "done"

\* the requests sent to the LLM service, in order
LLMRequests == SelectSeq(outbound, LAMBDA r : r.service = "llm")

\* no element of the sequence occurs twice
NoRepeat(seq) == \A i, j \in DOMAIN seq : seq[i] = seq[j] => i = j

\* a run of process_query has not retried anything: the LLM service was
\* called at most once, the rate service at most once for each conversion
\* of the query and each tool call, and no step was taken twice
QueryRunSafe ==
    /\ Len(LLMRequests) <= 1
    /\ Len(RateRequests) <= Len(_extract_conversions(op.query)) + Len(ToolCallsOf(op))
    /\ NoRepeat(trace)

\* a run of chat_completion has not retried anything: the LLM service was
\* not called, the rate service at most once for each conversion, the task
\* was started once, and at its end every conversion has its one result
ChatRunSafe ==
    \A id \in DOMAIN op.tasks :
        /\ LLMRequests = <<>>
        /\ Len(RateRequests) <= Len(op.tasks[id].conversions)
        /\ Count(trace, {[id |-> id, event |-> "start"]}) <= 1
        /\ Count(trace, {[id |-> id, event |-> "resume"]}) <= Len(RateRequests)
        /\ (op.tasks[id].pc = "done" =>
                /\ Count(trace, {[id |-> id, event |-> "resume"]}) = Len(RateRequests)
                /\ Len(op.tasks[id].results) = Len(op.tasks[id].conversions))

\* C27: no retries.  In one run of process_query or of chat_completion each
\* conversion request causes at most one request to the rate service and the
\* LLM service is called at most once; a failed call is the item's final
\* result, no step of the orchestrator is taken twice, and the run always
\* reaches its end.
C27_NoRetries ==
    /\ [](IF op.name = "process_query" THEN QueryRunSafe ELSE ChatRunSafe)
    /\ <>RunDone

\* C27, its case: a chat request whose one rate request failed ended with
\* the error line as the result of the item, after that one request
C27_FailedCallNotRetried ==
    /\ op.name = "chat_requests"
    /\ RunDone
    /\ Len(op.tasks[1].conversions) = 1
    /\ HasError(op.tasks[1].results[1])
    /\ Len(RateRequests) = 1
    /\ result[1].status = 200

\* request id gets its ChatResponse in this step
Responds(id) ==
    /\ result[id] = Pending
    /\ "body" \in DOMAIN result'[id]

\* the two messages chat_completion stores for request id: the user's
\* message, then the assistant's with the text of the response
Exchange(id) ==
    <<[role |-> "user", content |-> <<Str(op.tasks[id].req.message)>>],
      [role |-> "assistant", content |-> result'[id].body.response.text]>>

\* a history of user messages each followed at once by an assistant message
Paired(messages) ==
    /\ Len(messages) % 2 = 0
    /\ \A i \in DOMAIN messages :
          messages[i].role = IF i % 2 = 1 THEN "user" ELSE "assistant"

\* C29: every chat request that returns a response appends exactly two
\* messages to its session's history in the one step that returns it, the
\* user's message and then the assistant's with the returned text, also when
\* parsing or a conversion failed; no other step changes a history, so under
\* any interleaving of concurrent requests each user message is immediately
\* followed by its assistant response.
C29_ExchangeAppendedTogether ==
    /\ [][op.name = "chat_requests" =>
            /\ \A id \in DOMAIN op.tasks :
                  Responds(id) =>
                      /\ conversations' =
                            SetItem(conversations, op.tasks[id].req.session_id,
                                    Stored(conversations, op.tasks[id].req.session_id)
                                        \o Exchange(id))
                      /\ op'.tasks[id].pc = "done"
            /\ (\A id \in DOMAIN op.tasks : ~Responds(id)) =>
                  conversations' = conversations]_vars
    /\ [](op.name = "chat_requests" =>
            \A sid \in DOMAIN conversations : Paired(conversations[sid]))

\* C29, its case: two requests for the same session were both started before
\* either rate answer arrived, one of them got a failed answer, and both have
\* returned: the session holds the four messages
C29_InterleavedSameSession ==
    /\ op.name = "chat_requests"
    /\ Len(op.tasks) = 2
    /\ \A id \in DOMAIN op.tasks :
          /\ op.tasks[id].req.session_id = SessionId("s1")
          /\ op.tasks[id].pc = "done"
          /\ "body" \in DOMAIN result[id]
    /\ Len(trace) >= 2
    /\ trace[1].event = "start"
    /\ trace[2].event = "start"
    /\ \E id \in DOMAIN op.tasks : \E i \in DOMAIN op.tasks[id].results :
          HasError(op.tasks[id].results[i])
    /\ Len(Stored(conversations, SessionId("s1"))) = 4

\* the requests the phrases ps ask for, as parse_conversion_query returns
\* them
TuplesOf(ps) ==
    [i \in DOMAIN ps |->
        <<ps[i].request.amount, ps[i].request.from_currency, ps[i].request.to_currency>>]

\* C28: whole-text scanning.  Every well-formed phrase is found wherever it
\* stands in the text, also after other words ("please convert ...") and
\* when the phrases are separated by a comma, a space or nothing instead of
\* "and": _extract_conversions and parse_conversion_query each return one
\* request for each phrase, in order.
C28_WholeTextScanning ==
    \A lead \in Leads, sep \in Separators :
        \A ps \in SeqsUpTo(Phrases, MaxPhrases) \ {<<>>} :
            op.query = lead \o Joined(ps, sep) =>
                /\ Done("_extract_conversions") => result = Returns(RequestsOf(ps))
                /\ Done("parse_conversion_query") => result = Returns(TuplesOf(ps))

\* C28, its case: parse_conversion_query was given "please convert 100 USD
\* to EUR" and raised ValueError instead of returning the request
C28_PleaseConvertRejected ==
    /\ Done("parse_conversion_query")
    /\ op.query = <<"p","l","e","a","s","e"," ","c","o","n","v","e","r","t"," ",
                    "1","0","0"," ","U","S","D"," ","t","o"," ","E","U","R">>
    /\ IsValueError(result)

\* the number of add_interaction calls made on a stored session since it was
\* created
AddsSinceCreated(session_id) == trace[session_id]

\* a stored session holds the last 50 of the interactions added since it was
\* created, in the order they were added, and has counted all of them
KeepsMostRecent(session_id) ==
    /\ conversations[session_id].message_count = AddsSinceCreated(session_id)
    /\ Len(conversations[session_id].interactions)
           = Min(AddsSinceCreated(session_id), KeptInteractions)
    /\ \A i \in DOMAIN conversations[session_id].interactions :
          conversations[session_id].interactions[i].user_input
              = UserInput(AddsSinceCreated(session_id)
                              - Len(conversations[session_id].interactions) + i)

\* this step is a call of add_interaction for a session id that is not stored
AddsToUnknown ==
    /\ op'.name = "add_interaction"
    /\ op'.session_id \notin DOMAIN conversations

\* C30: after any sequence of create_session, add_interaction and
\* clear_session calls every stored session holds at most 50 interactions,
\* the most recent ones in the order they were added, and its message_count
\* is the number of add_interaction calls made on it since it was created,
\* truncation or not; add_interaction on a session id that is not stored
\* creates the session first, and then records the interaction in it.
C30_LastFiftyInteractionsKept ==
    /\ [](\A session_id \in DOMAIN conversations :
            /\ Len(conversations[session_id].interactions) <= KeptInteractions
            /\ KeepsMostRecent(session_id))
    /\ [][AddsToUnknown =>
            /\ op'.session_id \in DOMAIN conversations'
            /\ conversations'[op'.session_id] =
                  [new_session_data(op'.session_id, op'.now) EXCEPT
                      !.message_count = 1,
                      !.conversion_count = 1,
                      !.interactions =
                          <<interaction_of(UserInput(1), AiResponse(1), op'.now)>>]]_vars

\* C30, its case: 52 interactions were added to the session of a tab; it
\* holds the 50 from the third on and has counted 52
C30_FiftyTwoAdded ==
    /\ SessionId("tab-1") \in DOMAIN conversations
    /\ conversations[SessionId("tab-1")].message_count = 52
    /\ Len(conversations[SessionId("tab-1")].interactions) = 50
    /\ conversations[SessionId("tab-1")].interactions[1].user_input = UserInput(3)
    /\ conversations[SessionId("tab-1")].interactions[50].user_input = UserInput(52)

====
